---- MODULE Spec2Model ----
(***************************************************************************)
(* Model of firedrake/preconditioners/fdm.py: the FDMPC preconditioner.    *)
(*                                                                         *)
(* Numbers are integers.  The reference interval matrices produced by      *)
(* fdm_setup (a floating-point eigenproblem) are integer stand-ins of the  *)
(* right shape and symmetry; everything downstream of them (sparsification,*)
(* boundary variants, Kronecker products, scatter, flags, the controller)  *)
(* is computed the way the source computes it.  Second-order coefficients  *)
(* of a real assembly are even, so the 1/2 weights of the interior-penalty *)
(* average are exact.  Indices are 0-based as in the source; sequences     *)
(* are 1-based, so the entry of a sequence s at source index i is s[i+1].  *)
(***************************************************************************)
EXTENDS Integers, Sequences, FiniteSets, TLC

(***************************************************************************)
(* Bounds of the model.                                                    *)
(***************************************************************************)
\* number of cells of every mesh (base cells x layers on the extruded mesh)
MaxCells == 3
\* linearization points 0..MaxProfile the outer solver can move between
MaxProfile == 1
\* number of controllers set up one after the other in the process
MaxSetups == 2
\* number of assemblies in a row at one linearization point
MaxRepeat == 2

(***************************************************************************)
(* Sparse matrices.  A matrix is a function from its stored positions      *)
(* <<row, col>> to values; a position that is not stored reads as zero.    *)
(* A local (sequential) matrix also carries its size n.                    *)
(***************************************************************************)
EmptyMat == [p \in {} |-> 0]

Get(M, r, c) == IF <<r, c>> \in DOMAIN M THEN M[<<r, c>>] ELSE 0

\* MatSetValue with InsertMode.INSERT
InsertValue(M, r, c, v) == (<<r, c>> :> v) @@ M

\* A global matrix is a record [type, m, written, assembled, aliased, steps]:
\* m holds the stored entries, written the positions set since the assembly
\* began; aliased tells that an assembly into it changed or destroyed a matrix
\* that it shares with a catalog; steps lists, in their order, the steps of the
\* last assembly that acted on the matrix.
NewMat(type) ==
    [type |-> type, m |-> EmptyMat, written |-> {}, assembled |-> FALSE, aliased |-> FALSE,
     steps |-> << >>]

\* the matrix after one more step of its assembly
Mark(A, step) == [A EXCEPT !.steps = Append(@, step)]

\* the fault of scattering with InsertMode.INSERT: the entry is overwritten
MatSetValueInsertMutant(A, r, c, v) ==
    IF r < 0 \/ c < 0 THEN A
    ELSE [A EXCEPT !.m = (<<r, c>> :> (IF A.type = "preallocator" THEN 0 ELSE v)) @@ A.m,
                   !.written = @ \cup {<<r, c>>}]

\* MatSetValue(row, col, v, ADD_VALUES): a negative row or column is ignored;
\* a PREALLOCATOR records the position and drops the value
MatSetValue(A, r, c, v) ==
    IF r < 0 \/ c < 0 THEN A
    ELSE [A EXCEPT !.m = (<<r, c>> :> (IF A.type = "preallocator" THEN 0
                                       ELSE Get(A.m, r, c) + v)) @@ A.m,
                   !.written = @ \cup {<<r, c>>}]

\* Mat.zeroEntries: the values are zeroed, the stored pattern is kept
MatZeroEntries(A) == [A EXCEPT !.m = [p \in DOMAIN A.m |-> 0], !.assembled = FALSE]

\* A local matrix is a new object: shared tells that the object is an entry of
\* a catalog, touched that its values come from a catalog entry that was
\* changed in place.
Local(n, M) == [n |-> n, v |-> M, shared |-> FALSE, touched |-> FALSE]

\* the object as an entry of a catalog (Afdm.append)
CatalogEntry(X) == [X EXCEPT !.shared = TRUE]

\* the fault of taking the catalog entry itself where a copy is made
MatCopyAliasMutant(X) == X

\* Mat.copy: a new object with the same values
MatCopy(X) == [X EXCEPT !.shared = FALSE]

\* Mat.scale, in place: the stored pattern is kept
MatScale(X, a) ==
    [X EXCEPT !.v = [p \in DOMAIN X.v |-> a * X.v[p]], !.touched = @ \/ X.shared]

\* Mat.axpy, in place: Y <- Y + a X on the union of the two patterns
MatAXPY(Y, a, X) ==
    [Y EXCEPT !.v = [p \in (DOMAIN Y.v) \cup (DOMAIN X.v) |->
                       Get(Y.v, p[1], p[2]) + a * Get(X.v, p[1], p[2])],
              !.touched = @ \/ Y.shared \/ X.touched]

\* Mat.kron, a new object: entry (i*m+k, j*m+l) = X[i,j] * Y[k,l] on the
\* product pattern
MatKron(X, Y) ==
    [Local(X.n * Y.n,
           [p \in {<<q[1] * Y.n + s[1], q[2] * Y.n + s[2]>> :
                       q \in DOMAIN X.v, s \in DOMAIN Y.v} |->
               X.v[<<p[1] \div Y.n, p[2] \div Y.n>>]
                 * Y.v[<<p[1] % Y.n, p[2] % Y.n>>]])
       EXCEPT !.touched = X.touched \/ Y.touched]

\* Mat.destroy of the local matrix X, in the course of an assembly into A
MatDestroy(A, X) == [A EXCEPT !.aliased = @ \/ X.shared \/ X.touched]

(***************************************************************************)
(* numpy_to_petsc: a sparse matrix from the dense array D (a function on   *)
(* (0..n-1) x (0..n-1)): the diagonal when diag, then the rows and columns *)
(* named by dense_indices, or the two corners when there are none.  The    *)
(* column j is written from D[:][j], which is row j of D.                  *)
(***************************************************************************)
\* the fault of writing the dense rows and leaving the dense columns out
RECURSIVE DenseRowsOnlyMutant(_, _, _, _, _)
DenseRowsOnlyMutant(M, D, n, dense_indices, t) ==
    IF t > Len(dense_indices) THEN M
    ELSE LET j == dense_indices[t]
             withRow == [p \in (DOMAIN M) \cup {<<j, c>> : c \in 0..(n-1)} |->
                            IF p[1] = j THEN D[<<j, p[2]>>] ELSE M[p]]
         IN  DenseRowsOnlyMutant(withRow, D, n, dense_indices, t + 1)

RECURSIVE DenseRowsCols(_, _, _, _, _)
DenseRowsCols(M, D, n, dense_indices, t) ==
    IF t > Len(dense_indices) THEN M
    ELSE LET j == dense_indices[t]
             withRow == [p \in (DOMAIN M) \cup {<<j, c>> : c \in 0..(n-1)} |->
                            IF p[1] = j THEN D[<<j, p[2]>>] ELSE M[p]]
             withCol == [p \in (DOMAIN withRow) \cup {<<r, j>> : r \in 0..(n-1)} |->
                            IF p[2] = j THEN D[<<j, p[1]>>] ELSE withRow[p]]
         IN  DenseRowsCols(withCol, D, n, dense_indices, t + 1)

numpy_to_petsc(D, n, dense_indices, diag) ==
    LET M0 == IF diag THEN [p \in {<<j, j>> : j \in 0..(n-1)} |-> D[p]]
              ELSE EmptyMat
        M1 == IF Len(dense_indices) > 0
              THEN DenseRowsCols(M0, D, n, dense_indices, 1)
              ELSE InsertValue(InsertValue(M0, 0, n-1, D[<<0, n-1>>]),
                               n-1, 0, D[<<n-1, 0>>])
    IN  Local(n, M1)

(***************************************************************************)
(* fdm_setup: the transformed stiffness A = S^T Ahat S, mass B = S^T Bhat S*)
(* and the normal-derivative tabulation Dfdm (n rows, one column per       *)
(* endpoint, the first endpoint sign-flipped) of the interval element of   *)
(* the given degree, n = degree + 1.                                       *)
(***************************************************************************)
Dense(rows) ==
    [p \in (0..(Len(rows)-1)) \X (0..(Len(rows[1])-1)) |-> rows[p[1]+1][p[2]+1]]

fdm_setup(degree) ==
    IF degree = 1
    THEN [n |-> 2,
          A |-> Dense(<< <<1, -1>>, <<-1, 1>> >>),
          B |-> Dense(<< <<2, 1>>, <<1, 2>> >>),
          Dfdm |-> Dense(<< <<1, -1>>, <<-1, 1>> >>)]
    ELSE [n |-> 3,
          A |-> Dense(<< <<7, -8, 1>>, <<-8, 16, -8>>, <<1, -8, 7>> >>),
          B |-> Dense(<< <<4, 0, -1>>, <<0, 16, 0>>, <<-1, 0, 4>> >>),
          Dfdm |-> Dense(<< <<3, 1>>, <<-4, -4>>, <<1, 3>> >>)]

\* fdm_setup_cg.apply_strong_bcs
apply_strong_bcs(Ahat, n, bc0, bc1) ==
    LET k0 == IF bc0 = 1 THEN 0 ELSE 1
        k1 == IF bc1 = 1 THEN n ELSE n - 1
        kk == k0..(k1-1)
        A  == [p \in DOMAIN Ahat |->
                 IF p[1] = p[2] THEN Ahat[p]
                 ELSE IF p[1] \in kk /\ p[2] \in kk THEN 0 ELSE Ahat[p]]
    IN  numpy_to_petsc(A, n, <<0, n-1>>, TRUE)

\* fdm_setup_ipdg.apply_weak_bcs: one endpoint j (0 or -1) after the other
WeakEndpoint(Abc, Dfacet, n, j, jd, eta) ==
    LET colSub == [p \in DOMAIN Abc |->
                     IF p[2] = j THEN Abc[p] - Dfacet[<<p[1], jd>>] ELSE Abc[p]]
        rowSub == [p \in DOMAIN Abc |->
                     IF p[1] = j THEN colSub[p] - Dfacet[<<p[2], jd>>] ELSE colSub[p]]
    IN  [p \in DOMAIN Abc |-> IF p = <<j, j>> THEN rowSub[p] + eta ELSE rowSub[p]]

apply_weak_bcs(Ahat, Dfacet, n, bc0, bc1, eta) ==
    LET A0 == IF bc0 = 1 THEN WeakEndpoint(Ahat, Dfacet, n, 0, 0, eta) ELSE Ahat
        A1 == IF bc1 = 1 THEN WeakEndpoint(A0, Dfacet, n, n-1, 1, eta) ELSE A0
    IN  numpy_to_petsc(A1, n, <<0, n-1>>, TRUE)

\* the order in which the four variants are appended: bc1 outer, bc0 inner
VariantOrder == << <<0, 0>>, <<1, 0>>, <<0, 1>>, <<1, 1>> >>

\* fdm_setup_cg: (Afdm, None); None is the empty tabulation here
NoTabulation == [p \in {} |-> 0]

fdm_setup_cg(degree) ==
    LET s == fdm_setup(degree)
    IN  [Afdm |-> <<CatalogEntry(numpy_to_petsc(s.B, s.n, << >>, TRUE))>> \o
                  [i \in 1..4 |-> CatalogEntry(apply_strong_bcs(s.A, s.n, VariantOrder[i][1],
                                                                VariantOrder[i][2]))],
         Dfdm |-> NoTabulation]

\* fdm_setup_ipdg: (Afdm, Dfdm)
fdm_setup_ipdg(degree, eta) ==
    LET s == fdm_setup(degree)
    IN  [Afdm |-> <<CatalogEntry(numpy_to_petsc(s.B, s.n, << >>, TRUE))>> \o
                  [i \in 1..4 |-> CatalogEntry(apply_weak_bcs(s.A, s.Dfdm, s.n,
                                                              VariantOrder[i][1],
                                                              VariantOrder[i][2], eta))],
         Dfdm |-> s.Dfdm]

(***************************************************************************)
(* The problem handed to the preconditioner.  A configuration c names the  *)
(* mesh, the element and the weak form:                                    *)
(*   mesh      "interval" | "quad" | "extruded"                            *)
(*   dg        element.entity_dofs() == element.entity_closure_dofs()      *)
(*   degree    polynomial degree                                           *)
(*   bsize     V.value_size (= number of components; identity mapping)     *)
(*   bcs       tuple of DirichletBC records [sub, idx]                     *)
(*   ds        exterior-facet integrals of J, records [itype, sub]         *)
(*   bq        "none" | "diag" | "full": shape of the reaction coefficient *)
(*   eta       appctx["eta"], or -1 when the key is absent                 *)
(*   fdmBasis  element == e_fdm (no change of basis needed)                *)
(*   lineOk    get_line_elements succeeds                                  *)
(*   mapping   element mapping of the form arguments                       *)
(*   immersed  geometric dimension exceeds topological dimension           *)
(* The interval and the quadrilateral strip have MaxCells cells in a row;  *)
(* the extruded mesh is one base interval cell with MaxCells layers.       *)
(***************************************************************************)
Extruded(c) == c.mesh = "extruded"

\* mesh.topological_dimension()
ndim(c) == IF c.mesh = "interval" THEN 1 ELSE 2

\* nodes of the interval element in one direction
N1(c) == c.degree + 1

\* number of base cells and of layers
NBase(c) == IF Extruded(c) THEN 1 ELSE MaxCells
NLayers(c) == IF Extruded(c) THEN MaxCells ELSE 1

\* nodes per cell of V
CellNodes(c) == IF ndim(c) = 1 THEN N1(c) ELSE N1(c) * N1(c)

\* V.cell_node_map(): values (one row per base cell), offset (<< >> when the
\* mesh is not extruded) and the layers array of the iteration set
CellNodeMap(c) ==
    LET n == N1(c)
        col == NLayers(c) * (n - 1) + 1
        first(b) == IF c.dg THEN b * CellNodes(c) ELSE b * (n - 1) * (IF ndim(c) = 1 THEN 1 ELSE n)
    IN  [values |->
           [b \in 1..NBase(c) |->
              [t \in 1..CellNodes(c) |->
                 IF ndim(c) = 1 THEN first(b - 1) + (t - 1)
                 ELSE IF Extruded(c) THEN ((t - 1) \div n) * col + ((t - 1) % n)
                 ELSE first(b - 1) + (t - 1)]],
         offset |-> IF Extruded(c) THEN [t \in 1..CellNodes(c) |-> n - 1] ELSE << >>,
         layers |-> IF Extruded(c) THEN << <<0, NLayers(c) + 1>> >> ELSE << >>]

\* number of nodes of V
NumNodes(c) ==
    LET n == N1(c)
    IN  IF c.dg THEN MaxCells * CellNodes(c)
        ELSE IF ndim(c) = 1 THEN MaxCells * (n - 1) + 1
        ELSE (MaxCells * (n - 1) + 1) * n

NumDofs(c) == NumNodes(c) * c.bsize

\* the cell node map of a cell-wise constant coefficient space
CoefNodeMap(c) ==
    [values |-> [b \in 1..NBase(c) |-> <<(b - 1) * NLayers(c)>>],
     offset |-> IF Extruded(c) THEN <<1>> ELSE << >>,
     layers |-> IF Extruded(c) THEN << <<0, NLayers(c) + 1>> >> ELSE << >>]

\* layers[:, 1]-layers[:, 0]-1: the number of cells of every column
LayerCounts(layers) == [b \in DOMAIN layers |-> layers[b][2] - layers[b][1] - 1]

RECURSIVE SumSeq(_)
SumSeq(counts) == IF Len(counts) = 0 THEN 0 ELSE Head(counts) + SumSeq(Tail(counts))

\* numpy.repeat(numpy.arange(len(counts)), counts): entry b, counts[b] times
RECURSIVE RepeatArange(_, _)
RepeatArange(counts, b) ==
    IF Len(counts) = 0 THEN << >>
    ELSE [t \in 1..Head(counts) |-> b] \o RepeatArange(Tail(counts), b + 1)

\* numpy.concatenate([numpy.arange(nz) for nz in counts])
RECURSIVE ConcatArange(_)
ConcatArange(counts) ==
    IF Len(counts) = 0 THEN << >>
    ELSE [t \in 1..Head(counts) |-> t - 1] \o ConcatArange(Tail(counts))

\* the fault of tiling the columns instead of the layers
TileArangeByColumnMutant(nelz, n) == [t \in 1..(nelz * n) |-> (t - 1) \div nelz]

\* numpy.tile(numpy.arange(nelz), n)
TileArange(nelz, n) == [t \in 1..(nelz * n) |-> (t - 1) % nelz]

\* glonum_fun: the nodes of the linear cell index e, and the number of cells
glonum_fun(node_map) ==
    LET nelv == Len(node_map.values)
    IN  IF node_map.offset = << >>
        THEN [index |-> [e \in 0..(nelv - 1) |-> node_map.values[e + 1]], nel |-> nelv]
        ELSE IF Len(node_map.layers) = 1
        THEN LET nelz == node_map.layers[1][2] - node_map.layers[1][1] - 1
                 nel == nelz * nelv
             IN  [index |-> [e \in 0..(nel - 1) |->
                                [t \in DOMAIN node_map.offset |->
                                    node_map.values[(e \div nelz) + 1][t]
                                      + (e % nelz) * node_map.offset[t]]],
                  nel |-> nel]
        ELSE LET nelz == LayerCounts(node_map.layers)
                 nel == SumSeq(SubSeq(nelz, 1, nelv))
                 to_base == RepeatArange(nelz, 0)
                 to_layer == ConcatArange(nelz)
             IN  [index |-> [e \in 0..(nel - 1) |->
                                [t \in DOMAIN node_map.offset |->
                                    node_map.values[to_base[e + 1] + 1][t]
                                      + to_layer[e + 1] * node_map.offset[t]]],
                  nel |-> nel]

\* glonum: the nodes of every cell, one row per cell
glonum(node_map) ==
    IF node_map.offset = << >> THEN node_map.values
    ELSE IF Len(node_map.layers) = 1
    THEN LET nelz == node_map.layers[1][2] - node_map.layers[1][1] - 1
             to_layer == TileArange(nelz, Len(node_map.values))
         IN  [r \in 1..(nelz * Len(node_map.values)) |->
                [t \in DOMAIN node_map.offset |->
                   node_map.values[((r - 1) \div nelz) + 1][t]
                     + to_layer[r] * node_map.offset[t]]]
    ELSE LET nelz == LayerCounts(node_map.layers)
             to_layer == ConcatArange(nelz)
             rows == RepeatArange(nelz, 0)
         IN  [r \in 1..SumSeq(nelz) |->
                [t \in DOMAIN node_map.offset |->
                   node_map.values[rows[r] + 1][t] + to_layer[r] * node_map.offset[t]]]

\* mesh.cell_to_facets of the base mesh: per base cell and local facet the pair
\* <<flag, sub-domain id>>; flag 1 marks an interior facet, and a facet without
\* a label has sub-domain id -1.  The ends of the interval and of the strip
\* carry the ids 1 and 2; the long sides of the strip are unlabelled.
BaseCellToFacets(c) ==
    [b \in 0..(NBase(c) - 1) |->
       [f \in 0..(IF c.mesh = "quad" THEN 3 ELSE 1) |->
          IF f = 0 THEN (IF b = 0 THEN <<0, 1>> ELSE <<1, -1>>)
          ELSE IF f = 1 THEN (IF b = NBase(c) - 1 THEN <<0, 2>> ELSE <<1, -1>>)
          ELSE <<0, -1>>]]

\* mesh.interior_facets of the base mesh: facet f lies between cells f and f+1,
\* and is local facet 1 of the first and local facet 0 of the second
NumBaseFacets(c) == NBase(c) - 1
LocalFacetDat(c) == [f \in 0..(NumBaseFacets(c) - 1) |-> <<1, 0>>]

(***************************************************************************)
(* get_bc_flags.  A DirichletBC is a record [kind, ids, idx]: kind is      *)
(* "on_boundary", "bottom", "top" or "ids" (then ids is the set of         *)
(* sub-domain ids); idx is bc._indices, -1 for () and j for (j,).  An      *)
(* integral of J is a record [itype, everywhere, ids].                     *)
(* Only the mesh, the number of components, the conditions and the         *)
(* integrals of a configuration are read.                                  *)
(***************************************************************************)
AllComponents == -1

\* w.dat.data_ro_with_halos[glonum(DGT.cell_node_map())] after bc_h was applied:
\* positive on interior facets, -2 on the bottom, -4 on the top, 0 elsewhere
MarkedFacets(c) ==
    LET nelz == NLayers(c)
        base == BaseCellToFacets(c)
        nfacet == 2
    IN  [e \in 0..(NBase(c) * nelz - 1) |->
           [f \in 0..(nfacet + 1) |->
              IF f < nfacet THEN (IF base[e \div nelz][f][1] # 0 THEN 1 ELSE 0)
              ELSE IF f = nfacet THEN (IF e % nelz = 0 THEN -2 ELSE 1)
              ELSE (IF e % nelz = nelz - 1 THEN -4 ELSE 1)]]

\* the array cell_to_facets of get_bc_flags: <<flag, sub>> per cell and facet
CellToFacets(c) ==
    IF Extruded(c)
    THEN LET nelz == NLayers(c)
             base == BaseCellToFacets(c)
             nfacet == 2
             marked == MarkedFacets(c)
         IN  [e \in 0..(NBase(c) * nelz - 1) |->
                [f \in 0..(nfacet + 1) |->
                   LET rep == IF f < nfacet THEN base[e \div nelz][f] ELSE <<0, 0>>
                   IN  IF marked[e][f] > 0 THEN <<1, -1>>
                       ELSE IF marked[e][f] < 0 THEN <<0, marked[e][f]>>
                       ELSE rep]]
    ELSE BaseCellToFacets(c)

IsExteriorIntegral(it) ==
    it.itype \in {"exterior_facet", "exterior_facet_vert",
                  "exterior_facet_bottom", "exterior_facet_top"}

\* the keys of the dictionary comp after both loops
CompKeys(bcs, ds) ==
    {bcs[i].idx : i \in DOMAIN bcs}
      \cup (IF \E i \in DOMAIN ds : IsExteriorIntegral(ds[i]) THEN {AllComponents} ELSE {})

BcLabels(bc) ==
    IF bc.kind = "on_boundary" THEN {}
    ELSE IF bc.kind = "bottom" THEN {-2}
    ELSE IF bc.kind = "top" THEN {-4}
    ELSE bc.ids

IntegralLabels(it) ==
    IF ~IsExteriorIntegral(it) THEN {}
    ELSE IF it.everywhere
         THEN (IF it.itype = "exterior_facet_bottom" THEN {-2}
               ELSE IF it.itype = "exterior_facet_top" THEN {-4}
               ELSE {})
    ELSE it.ids

\* comp.get(key, ()) as a set
CompLabels(bcs, ds, key) ==
    UNION ({BcLabels(bcs[i]) : i \in {j \in DOMAIN bcs : bcs[j].idx = key}}
           \cup (IF key = AllComponents
                 THEN {IntegralLabels(ds[i]) : i \in DOMAIN ds} ELSE {}))

\* the list maskall as a set
MaskAll(bcs, ds) ==
    {bcs[i].idx : i \in {j \in DOMAIN bcs : bcs[j].kind = "on_boundary"}}
      \cup (IF \E i \in DOMAIN ds :
                   /\ IsExteriorIntegral(ds[i]) /\ ds[i].everywhere
                   /\ ds[i].itype \notin {"exterior_facet_bottom", "exterior_facet_top"}
            THEN {AllComponents} ELSE {})

\* the fault of reading "on_boundary" as the facets with a non-negative id
BaseFlagNonNegativeMutant(flag, sub, labels, masked) ==
    IF flag # 0 THEN 0
    ELSE IF masked /\ sub >= 0 THEN 1
    ELSE IF sub \in labels THEN 1 ELSE 0

\* fbc before the component split (lines 959-965)
BaseFlag(flag, sub, labels, masked) ==
    IF flag # 0 THEN 0
    ELSE IF masked /\ sub >= -1 THEN 1
    ELSE IF sub \in labels THEN 1 ELSE 0

\* the fault of a component that starts from zero instead of the common flags
ComponentFlagWithoutBaseMutant(base, sub, labels, masked) ==
    IF masked /\ sub >= -1 THEN 1
    ELSE IF sub \in labels THEN 1 ELSE 0

\* fbc[j] after the loop over components (lines 970-977)
ComponentFlag(base, sub, labels, masked) ==
    IF masked /\ sub >= -1 THEN 1
    ELSE IF sub \in labels THEN 1 ELSE base

\* get_bc_flags(bcs, J): [split, v]; v is indexed <<cell, facet>>, or
\* <<cell, component, facet>> when some condition names a single component
FlagsOf(c, ctf, mask) ==
    LET cells == DOMAIN ctf
        facets == DOMAIN ctf[0]
        keys == CompKeys(c.bcs, c.ds)
        fbc == [p \in cells \X facets |->
                  BaseFlag(ctf[p[1]][p[2]][1], ctf[p[1]][p[2]][2],
                           CompLabels(c.bcs, c.ds, AllComponents),
                           AllComponents \in mask)]
    IN  IF keys \ {AllComponents} # {}
        THEN [split |-> TRUE,
              v |-> [p \in cells \X (0..(c.bsize - 1)) \X facets |->
                       ComponentFlag(fbc[<<p[1], p[3]>>], ctf[p[1]][p[3]][2],
                                     CompLabels(c.bcs, c.ds, p[2]), p[2] \in mask)]]
        ELSE [split |-> FALSE, v |-> fbc]

get_bc_flags(c) == FlagsOf(c, CellToFacets(c), MaskAll(c.bcs, c.ds))

(***************************************************************************)
(* Strong conditions on the degrees of freedom.  The nodes of a condition  *)
(* are the nodes of V on the exterior facets of its sub-domain; a          *)
(* discontinuous space has no node on a facet.  DOF = node * bsize + k.    *)
(***************************************************************************)
\* local nodes of a cell on its local facet f (direction f \div 2, end f % 2)
FacetLocalNodes(c, f) ==
    LET n == N1(c)
        end == IF f % 2 = 0 THEN 0 ELSE n - 1
    IN  IF ndim(c) = 1 THEN {end}
        ELSE IF f \div 2 = 0 THEN {end * n + j : j \in 0..(n - 1)}
        ELSE {i * n + end : i \in 0..(n - 1)}

BcMatchesFacet(bc, fs) ==
    /\ fs[1] = 0
    /\ IF bc.kind = "on_boundary" THEN fs[2] >= -1 ELSE fs[2] \in BcLabels(bc)

\* bc.nodes
FacetNodesOf(c, bc, ctf, index) ==
    UNION {{index[q[1]][t + 1] : t \in FacetLocalNodes(c, q[2])} :
              q \in {q1 \in (DOMAIN ctf) \X (DOMAIN ctf[0]) :
                       BcMatchesFacet(bc, ctf[q1[1]][q1[2]])}}

BcNodeSet(c, bc) ==
    IF c.dg THEN {}
    ELSE FacetNodesOf(c, bc, CellToFacets(c), glonum_fun(CellNodeMap(c)).index)

\* bcdofs(bc, ghost=False)
bcdofs(c, bc) ==
    {nd * c.bsize + k : nd \in BcNodeSet(c, bc),
                        k \in IF bc.idx = AllComponents THEN 0..(c.bsize - 1) ELSE {bc.idx}}

\* V.local_to_global_map(bcs).indices: negative at the constrained DOFs
LgmapIndices(c) ==
    LET constrained == UNION {bcdofs(c, c.bcs[i]) : i \in DOMAIN c.bcs}
    IN  [d \in 0..(NumDofs(c) - 1) |-> IF d \in constrained THEN -1 - d ELSE d]

\* the fault of scattering with the map that ignores the boundary conditions
LgmapApplyWithoutBcsMutant(ind, dofs) == dofs

\* lgmap.apply with the indices ind: a negative input stays negative
LgmapApply(ind, dofs) ==
    [t \in DOMAIN dofs |-> IF dofs[t] < 0 THEN dofs[t] ELSE ind[dofs[t]]]

\* V.dof_dset.lgmap.indices[lgmap.indices < 0]: the eliminated rows
EliminatedRows(c) == {d \in 0..(NumDofs(c) - 1) : LgmapIndices(c)[d] < 0}

(***************************************************************************)
(* get_interior_facet_maps(V): the nodes of the two cells of interior      *)
(* facet e, its two local facet numbers, and the number of facets.         *)
(***************************************************************************)
\* V.interior_facet_node_map() for a space with cell node map cmap
FacetNodeMap(c, cmap) ==
    [values |-> [f \in 1..NumBaseFacets(c) |-> cmap.values[f] \o cmap.values[f + 1]],
     offset |-> cmap.offset \o cmap.offset,
     layers |-> cmap.layers]

\* mesh.interior_facets.facet_cell_map.values of the base mesh
FacetToCells(nbase) == [f \in 0..(nbase - 1) |-> <<f, f + 1>>]

\* the smaller and the larger of two numbers

\* lines 787-793: the number of layers that the two columns of a base facet share
SharedLayers(layers, cells) ==
    LET lo == [i \in 1..2 |-> layers[cells[i] + 1][1]]
        hi == [i \in 1..2 |-> layers[cells[i] + 1][2]]
        istart == IF lo[1] >= lo[2] THEN lo[1] ELSE lo[2]
        iend == IF hi[1] <= hi[2] THEN hi[1] ELSE hi[2]
    IN  iend - istart - 1

\* the nodes of the cells of layers l and l+1 of column b (lines 804, 812)
HorizontalNodes(cmap, b, l) ==
    [t \in DOMAIN cmap.offset |-> cmap.values[b + 1][t] + l * cmap.offset[t]]
      \o [t \in DOMAIN cmap.offset |-> cmap.values[b + 1][t] + (l + 1) * cmap.offset[t]]

\* local_facet_data_h
local_facet_data_h == <<5, 4>>

\* lines 770-818 for the facet node map fmap, the cell node map cmap, the
\* local facet numbers and the cells of the base facets
InteriorFacetMaps(fmap, cmap, local_facet_data, facet_to_cells, extruded, variable_layers) ==
    LET nbase == Len(fmap.values)
        nelv == Len(cmap.values)
    IN  IF extruded /\ variable_layers
        THEN LET nzs == [f \in 1..nbase |-> SharedLayers(fmap.layers, facet_to_cells[f - 1])]
                 nv == SumSeq(nzs)
                 nh == [b \in DOMAIN fmap.layers |->
                          fmap.layers[b][2] - fmap.layers[b][1] - 2]
                 to_base == RepeatArange(nzs, 0) \o RepeatArange(nh, 0)
                 to_layer == ConcatArange(nzs) \o ConcatArange(nh)
                 nfacets == nv + SumSeq(SubSeq(nh, 1, nelv))
             IN  [nfacets |-> nfacets,
                  lfd |-> [e \in 0..(nfacets - 1) |->
                             IF e < nv THEN local_facet_data[to_base[e + 1]]
                             ELSE local_facet_data_h],
                  index |-> [e \in 0..(nfacets - 1) |->
                     IF e < nv
                     THEN [t \in DOMAIN fmap.offset |->
                             fmap.values[to_base[e + 1] + 1][t]
                               + to_layer[e + 1] * fmap.offset[t]]
                     ELSE HorizontalNodes(cmap, to_base[e + 1], to_layer[e + 1])]]
        ELSE IF extruded
        THEN LET nelz == fmap.layers[1][2] - fmap.layers[1][1] - 1
                 nv == nbase * nelz
                 nh == nelv * (nelz - 1)
             IN  [nfacets |-> nv + nh,
                  lfd |-> [e \in 0..(nv + nh - 1) |->
                             IF e < nv THEN local_facet_data[e \div nelz]
                             ELSE local_facet_data_h],
                  index |-> [e \in 0..(nv + nh - 1) |->
                     IF e < nv
                     THEN [t \in DOMAIN fmap.offset |->
                             fmap.values[(e \div nelz) + 1][t] + (e % nelz) * fmap.offset[t]]
                     ELSE HorizontalNodes(cmap, (e - nv) \div (nelz - 1),
                                          (e - nv) % (nelz - 1))]]
        ELSE [nfacets |-> nbase,
              lfd |-> [e \in 0..(nbase - 1) |-> local_facet_data[e]],
              index |-> [e \in 0..(nbase - 1) |-> fmap.values[e + 1]]]

get_interior_facet_maps(c, cmap) ==
    InteriorFacetMaps(FacetNodeMap(c, cmap), cmap, LocalFacetDat(c),
                      FacetToCells(NumBaseFacets(c)), Extruded(c), FALSE)

\* pull_axis(x, pshape, idir) for the shapes (n,) and (n, n)
pull_axis(xs, n, nd, idir) ==
    IF nd = 1 \/ idir = 0 THEN xs
    ELSE [t \in DOMAIN xs |-> xs[((t - 1) % n) * n + ((t - 1) \div n) + 1]]

(***************************************************************************)
(* set_submat_csr: row i of the local matrix goes to global row rows[i],   *)
(* its stored columns j to rows[j], in CSR order, with ADD_VALUES.  There  *)
(* is nothing to set in a matrix that was never created (type "none"),    *)
(* and the loops of the assembly leave such a matrix alone.                *)
(***************************************************************************)
RECURSIVE SubmatRow(_, _, _, _, _)
SubmatRow(A, Ae, rows, i, j) ==
    IF j >= Ae.n \/ A.type = "none" THEN A
    ELSE SubmatRow(IF <<i, j>> \in DOMAIN Ae.v
                   THEN MatSetValue(A, rows[i + 1], rows[j + 1], Ae.v[<<i, j>>])
                   ELSE A,
                   Ae, rows, i, j + 1)

RECURSIVE SubmatFrom(_, _, _, _)
SubmatFrom(A, Ae, rows, i) ==
    IF i >= Ae.n \/ A.type = "none" THEN A
    ELSE SubmatFrom(SubmatRow(A, Ae, rows, i, 0), Ae, rows, i + 1)

set_submat_csr(A, Ae, rows) == SubmatFrom(A, Ae, rows, 0)

(***************************************************************************)
(* Coefficients.  Gq holds one value per (coefficient node, component,     *)
(* direction); Bq one value per (node, row, column): a single entry for a  *)
(* scalar space and a bsize x bsize block (rank 2) for a vector space.     *)
(* The values at linearization point lin are what the assembly callables   *)
(* of assemble_coef write; the second-order values are even.               *)
(***************************************************************************)
CoefNodes(c) == 0..(MaxCells - 1)

GqAt(c, lin) ==
    [q \in CoefNodes(c) \X (0..(c.bsize - 1)) \X (0..(ndim(c) - 1)) |->
       2 * (1 + ((lin * (q[1] + 1) + q[2] + q[3]) % 3))]

BqAt(c, lin) ==
    [q \in CoefNodes(c) \X (0..(c.bsize - 1)) \X (0..(c.bsize - 1)) |->
       1 + ((lin + q[1]) % 2) + (IF q[2] = q[3] THEN 2 ELSE 0)
         + (IF c.bq = "asym" /\ q[2] < q[3] THEN 1 ELSE 0)]

\* coefficients.get("Bq") is not None
HasBq(c) == c.bq # "none"

\* the dictionary coefficients right after assemble_coef: nothing assembled yet
FreshCoef(c) ==
    [Gq |-> [q \in DOMAIN GqAt(c, 0) |-> 0],
     Bq |-> IF HasBq(c) THEN [q \in DOMAIN BqAt(c, 0) |-> 0] ELSE EmptyMat]

\* cvec.set(1.0E0) on every coefficient
PlaceholderCoef(coef) ==
    [Gq |-> [q \in DOMAIN coef.Gq |-> 1], Bq |-> [q \in DOMAIN coef.Bq |-> 1]]

\* one assembly callable of assemble_coef
RunCallable(c, coef, name, lin) ==
    IF name = "Gq" THEN [coef EXCEPT !.Gq = GqAt(c, lin)]
    ELSE [coef EXCEPT !.Bq = BqAt(c, lin)]

RECURSIVE RunCallables(_, _, _, _)
RunCallables(c, coef, callables, lin) ==
    IF Len(callables) = 0 THEN coef
    ELSE RunCallables(c, RunCallable(c, coef, Head(callables), lin), Tail(callables), lin)

(***************************************************************************)
(* assemble_kron.                                                          *)
(***************************************************************************)
\* lines 280-281: the identity in the Dirichlet rows, added to the entry
RECURSIVE InsertIdentity(_, _)
InsertIdentity(A, rowset) ==
    IF rowset = {} \/ A.type = "none" THEN A
    ELSE LET row == CHOOSE r \in rowset : \A r2 \in rowset : r <= r2
         IN  InsertIdentity(Mark(MatSetValue(A, row, row, 1), <<"identity", row>>),
                            rowset \ {row})

\* set_submat_csr(A, Ae, rows, imode); Ae.destroy()
ScatterAndDestroy(A, Ae, rows) == MatDestroy(set_submat_csr(A, Ae, rows), Ae)

\* Be = Bhat kron ... kron Bhat (lines 290-292)
MassKron(c, Afdm) ==
    IF ndim(c) = 1 THEN MatCopy(Afdm[1][1])
    ELSE MatKron(MatCopy(Afdm[1][1]), Afdm[2][1])

\* lines 296-306 for one cell: the dense reaction block of a vector space
DenseReactionCell(A, c, ix, coef, Afdm, e) ==
    LET bs == c.bsize
        je == ix.index_coef[e][1]
        blk == Local(bs, [q \in (0..(bs - 1)) \X (0..(bs - 1)) |->
                            coef.Bq[<<je, q[1], q[2]>>]])
        Ae == MatKron(MassKron(c, Afdm), blk)
        nodes == ix.index_cell[e]
        ie == [t \in 1..(Len(nodes) * bs) |->
                 nodes[((t - 1) \div bs) + 1] * bs + ((t - 1) % bs)]
    IN  ScatterAndDestroy(A, Ae, LgmapApply(ix.lgmap, ie))

\* the flags of cell e and component k
CellFlags(c, bcflags, e, k) ==
    [f \in 0..(2 * ndim(c) - 1) |->
       IF bcflags.split THEN bcflags.v[<<e, k, f>>] ELSE bcflags.v[<<e, f>>]]

\* fbc = numpy.dot(bck, flag2id): the selection index of direction d, less one
\* the fault of weighting the two endpoints the other way round
StiffnessIndexSwappedMutant(bck, d) == 2 * bck[2 * d] + bck[2 * d + 1]

StiffnessIndex(bck, d) == bck[2 * d] + 2 * bck[2 * d + 1]

\* Afdm[axes[d]][1+fbc[d]]: the stiffness operator of direction d
SelectedStiffness(Afdm, bck, d) == Afdm[d + 1][1 + StiffnessIndex(bck, d) + 1]

\* lines 323-350 for one cell and one component
CellComponent(A, c, ix, coef, useBq, Afdm, bcflags, e, k) ==
    LET je == ix.index_coef[e][1]
        bck == CellFlags(c, bcflags, e, k)
        mu(d) == coef.Gq[<<je, k, d>>]
        Be == MatCopy(Afdm[1][1])
        A0 == MatScale(MatCopy(SelectedStiffness(Afdm, bck, 0)), mu(0))
        A1 == IF useBq THEN MatAXPY(A0, coef.Bq[<<je, k, k>>], Be) ELSE A0
        Ae == IF ndim(c) > 1
              THEN MatAXPY(MatKron(A1, Afdm[2][1]), mu(1),
                           MatKron(Be, SelectedStiffness(Afdm, bck, 1)))
              ELSE A1
        ie == [t \in DOMAIN ix.index_cell[e] |-> ix.index_cell[e][t] * c.bsize + k]
    IN  MatDestroy(ScatterAndDestroy(A, Ae, LgmapApply(ix.lgmap, ie)), Be)

RECURSIVE DenseReactionLoop(_, _, _, _, _, _)
DenseReactionLoop(A, c, ix, coef, Afdm, order) ==
    IF Len(order) = 0 \/ A.type = "none" THEN A
    ELSE DenseReactionLoop(Mark(DenseReactionCell(A, c, ix, coef, Afdm, Head(order)),
                                <<"reaction", Head(order)>>),
                           c, ix, coef, Afdm, Tail(order))

RECURSIVE ComponentLoop(_, _, _, _, _, _, _, _, _)
ComponentLoop(A, c, ix, coef, useBq, Afdm, bcflags, e, k) ==
    IF k >= c.bsize \/ A.type = "none" THEN A
    ELSE ComponentLoop(CellComponent(A, c, ix, coef, useBq, Afdm, bcflags, e, k),
                       c, ix, coef, useBq, Afdm, bcflags, e, k + 1)

RECURSIVE CellLoop(_, _, _, _, _, _, _, _)
CellLoop(A, c, ix, coef, useBq, Afdm, bcflags, order) ==
    IF Len(order) = 0 \/ A.type = "none" THEN A
    ELSE CellLoop(Mark(ComponentLoop(A, c, ix, coef, useBq, Afdm, bcflags, Head(order), 0),
                       <<"cell", Head(order)>>),
                  c, ix, coef, useBq, Afdm, bcflags, Tail(order))

\* sij * mu: the weight +1/2 or -1/2 on an even coefficient
Half(v) == v \div 2

\* the fault of averaging with +1/2 in every block
FacetSignAlwaysPlusMutant(i, j) == 1

\* the sign of sij = 0.5 if i == j else -0.5
FacetSign(i, j) == IF i = j THEN 1 ELSE -1

\* lines 396-418: the dense 2x2-block matrix of facet e and component k
FacetDense(c, eta, coef, Dfacet, lfd, je, k) ==
    LET n == N1(c)
        mu == [v \in 0..1 |-> coef.Gq[<<je[v + 1], k, lfd[v + 1] \div 2>>]]
        corner(v) == v * n + (n - 1) * (lfd[v + 1] % 2)
        smu(i, j, v) == FacetSign(i, j) * Half(mu[v])
        term(r, cc, i, j) ==
            (IF r = corner(i) /\ cc = corner(j)
             THEN eta * (smu(i, j, 0) + smu(i, j, 1)) ELSE 0)
            - (IF r \div n = i /\ cc = corner(j)
               THEN smu(i, j, i) * Dfacet[<<r - i * n, lfd[i + 1] % 2>>] ELSE 0)
            - (IF r = corner(i) /\ cc \div n = j
               THEN smu(i, j, j) * Dfacet[<<cc - j * n, lfd[j + 1] % 2>>] ELSE 0)
    IN  [p \in (0..(2 * n - 1)) \X (0..(2 * n - 1)) |->
           term(p[1], p[2], 0, 0) + term(p[1], p[2], 0, 1)
             + term(p[1], p[2], 1, 0) + term(p[1], p[2], 1, 1)]

\* lines 377-437 for one facet and one component (identity mapping: no PT_facet)
FacetMatrix(c, A0, Afdm) == IF ndim(c) > 1 THEN MatKron(A0, Afdm[2][1]) ELSE A0

\* lines 426-435: the rows of the two cells, each seen along its facet direction
FacetRows(c, icell, lfd) ==
    LET half == Len(icell) \div 2
    IN  pull_axis(SubSeq(icell, 1, half), N1(c), ndim(c), lfd[1] \div 2)
          \o pull_axis(SubSeq(icell, half + 1, 2 * half), N1(c), ndim(c), lfd[2] \div 2)

FacetComponentAt(A, c, ix, eta, coef, Afdm, Dfacet, k, ie, je, lfd) ==
    LET n == N1(c)
        corner(v) == v * n + (n - 1) * (lfd[v + 1] % 2)
    IN  IF Dfacet = NoTabulation THEN A
        ELSE ScatterAndDestroy(
                 A,
                 FacetMatrix(c, numpy_to_petsc(FacetDense(c, eta, coef, Dfacet, lfd, je, k),
                                               2 * n, <<corner(0), corner(1)>>, FALSE),
                             Afdm),
                 FacetRows(c, LgmapApply(ix.lgmap, [t \in DOMAIN ie |-> k + c.bsize * ie[t]]), lfd))

FacetComponent(A, c, ix, eta, coef, Afdm, Dfdm, e, k) ==
    FacetComponentAt(A, c, ix, eta, coef, Afdm, Dfdm[1], k,
                     ix.index_facet.index[e], ix.index_coef_facet.index[e],
                     ix.index_facet.lfd[e])

RECURSIVE FacetComponentLoop(_, _, _, _, _, _, _, _, _)
FacetComponentLoop(A, c, ix, eta, coef, Afdm, Dfdm, e, k) ==
    IF k >= c.bsize \/ A.type = "none" THEN A
    ELSE FacetComponentLoop(FacetComponent(A, c, ix, eta, coef, Afdm, Dfdm, e, k),
                            c, ix, eta, coef, Afdm, Dfdm, e, k + 1)

RECURSIVE FacetLoop(_, _, _, _, _, _, _, _)
FacetLoop(A, c, ix, eta, coef, Afdm, Dfdm, order) ==
    IF Len(order) = 0 \/ A.type = "none" THEN A
    ELSE FacetLoop(Mark(FacetComponentLoop(A, c, ix, eta, coef, Afdm, Dfdm, Head(order), 0),
                        <<"facet", Head(order)>>),
                   c, ix, eta, coef, Afdm, Dfdm, Tail(order))

\* the fault of accumulating into the matrix without zeroEntries
BeginAssemblyNoZeroMutant(A) ==
    [A EXCEPT !.written = {}, !.assembled = FALSE, !.steps = << >>]

\* lines 274-277: a real matrix is zeroed and the coefficients are assembled
BeginAssembly(A) ==
    IF A.type # "preallocator"
    THEN Mark([MatZeroEntries(A) EXCEPT !.written = {}, !.steps = << >>], <<"zeroEntries">>)
    ELSE [A EXCEPT !.written = {}, !.steps = << >>]

\* the fault of leaving the identity out of the preallocation pass
IdentityStepRealOnlyMutant(A, c) ==
    IF A.type = "preallocator" THEN A ELSE InsertIdentity(A, EliminatedRows(c))

\* lines 280-281
IdentityStep(A, c) == InsertIdentity(A, EliminatedRows(c))

\* the fault of entering the facet stage whatever the tabulations are
HasTabulationAlwaysMutant(Dfdm) == TRUE

\* lines 354-356: SIPG terms are assembled, and fail on an immersed mesh
HasTabulation(Dfdm) == \E d \in DOMAIN Dfdm : Dfdm[d] # NoTabulation

\* the fault of raising only once the real matrix is assembled
GeometryErrorRealOnlyMutant(A, c, Dfdm) ==
    A.type # "preallocator" /\ HasTabulation(Dfdm) /\ c.immersed

GeometryError(A, c, Dfdm) == HasTabulation(Dfdm) /\ c.immersed

Iota(n) == [t \in 1..n |-> t - 1]

\* the fault of keeping the reaction coefficient after the dense pass
BqKeptAfterPrepassMutant(c, use_diag_Bq) == HasBq(c)

\* "Bq is not None" in the cell loop: the dense pass ends with Bq = None
BqInCellLoop(c, use_diag_Bq) == HasBq(c) /\ use_diag_Bq

\* assemble_kron with the cells and the facets visited in the given orders;
\* the result is the matrix, the coefficients and the error raised, if any
\* lines 283-351: the reaction and the cell terms
CellStage(A, c, ix, coef, Afdm, bcflags, cellOrder) ==
    LET use_diag_Bq == ~HasBq(c) \/ c.bsize = 1
    IN  CellLoop(IF ~use_diag_Bq
                 THEN MatDestroy(DenseReactionLoop(A, c, ix, coef, Afdm, cellOrder),
                                 MassKron(c, Afdm))
                 ELSE A,
                 c, ix, coef, BqInCellLoop(c, use_diag_Bq), Afdm, bcflags, cellOrder)

\* lines 353-438: the facet terms and A.assemble()
FacetStage(A, c, ix, eta, coef, Afdm, Dfdm, facetOrder) ==
    IF GeometryError(A, c, Dfdm)
    THEN [A |-> A, coef |-> coef, err |-> "NotImplementedError"]
    ELSE [A |-> [Mark(IF HasTabulation(Dfdm)
                      THEN FacetLoop(A, c, ix, eta, coef, Afdm, Dfdm, facetOrder)
                      ELSE A, <<"assemble">>) EXCEPT !.assembled = TRUE],
          coef |-> coef, err |-> "none"]

\* lines 256-265 and 357-358: the maps every scatter of an assembly goes through
KronMaps(c) ==
    [lgmap |-> LgmapIndices(c),
     index_cell |-> glonum_fun(CellNodeMap(c)).index,
     index_coef |-> glonum_fun(CoefNodeMap(c)).index,
     index_facet |-> get_interior_facet_maps(c, CellNodeMap(c)),
     index_coef_facet |-> get_interior_facet_maps(c, CoefNodeMap(c))]

\* the fault of inserting the identity rows after the cell terms
KronStagesIdentityAfterCellsMutant(A, c, ix, eta, coef, Afdm, Dfdm, bcflags, cellOrder, facetOrder) ==
    FacetStage(IdentityStep(CellStage(BeginAssembly(A), c, ix, coef, Afdm, bcflags, cellOrder),
                            c),
               c, ix, eta, coef, Afdm, Dfdm, facetOrder)

KronStagesWith(A, c, ix, eta, coef, Afdm, Dfdm, bcflags, cellOrder, facetOrder) ==
    FacetStage(CellStage(IdentityStep(BeginAssembly(A), c), c, ix, coef, Afdm, bcflags,
                         cellOrder),
               c, ix, eta, coef, Afdm, Dfdm, facetOrder)

KronStages(A, c, eta, coef, Afdm, Dfdm, bcflags, cellOrder, facetOrder) ==
    KronStagesWith(A, c, KronMaps(c), eta, coef, Afdm, Dfdm, bcflags, cellOrder, facetOrder)

\* the fault of an assembly that never runs the assembly callables
CallablesNeverRunMutant(A, callables) == << >>

\* lines 274-277: the assembly callables run for a real matrix only
CallablesToRun(A, callables) == IF A.type # "preallocator" THEN callables ELSE << >>

\* the result of an assembly together with the assembly callables it ran
WithRan(r, ran) == [A |-> r.A, coef |-> r.coef, err |-> r.err, ran |-> ran]

AssembleKronOrdered(A, c, eta, coefIn, callables, lin, Afdm, Dfdm, bcflags, cellOrder, facetOrder) ==
    WithRan(KronStages(A, c, eta,
                       RunCallables(c, coefIn, CallablesToRun(A, callables), lin),
                       Afdm, Dfdm, bcflags, cellOrder, facetOrder),
            CallablesToRun(A, callables))

\* assemble_kron: for e in range(nel), for e in range(nfacets)
assemble_kron(A, c, eta, coefIn, callables, lin, Afdm, Dfdm, bcflags) ==
    AssembleKronOrdered(A, c, eta, coefIn, callables, lin, Afdm, Dfdm, bcflags,
                        Iota(glonum_fun(CellNodeMap(c)).nel),
                        Iota(get_interior_facet_maps(c, CellNodeMap(c)).nfacets))

(***************************************************************************)
(* The problems the model is run on.                                       *)
(***************************************************************************)
Bc(kind, ids, idx) == [kind |-> kind, ids |-> ids, idx |-> idx]
Ds(itype, everywhere, ids) == [itype |-> itype, everywhere |-> everywhere, ids |-> ids]

BcChoices ==
    { << >>,
      <<Bc("on_boundary", {}, AllComponents)>>,
      <<Bc("ids", {1}, AllComponents)>>,
      <<Bc("ids", {1}, AllComponents), Bc("ids", {2}, AllComponents)>>,
      <<Bc("on_boundary", {}, 0)>>,
      <<Bc("ids", {1}, 0), Bc("ids", {2}, 1)>>,
      <<Bc("top", {}, AllComponents)>>,
      <<Bc("bottom", {}, AllComponents), Bc("on_boundary", {}, AllComponents)>> }

DsChoices ==
    { << >>,
      <<Ds("exterior_facet", TRUE, {})>>,
      <<Ds("exterior_facet", FALSE, {2})>> }

Failing(c) == ~c.lineOk \/ c.mapping # "identity" \/ c.immersed

OnBoundaryAll == <<Bc("on_boundary", {}, AllComponents)>>

ConfigSet ==
    { c \in [mesh : {"interval", "quad", "extruded"}, dg : BOOLEAN, degree : {1, 2},
             bsize : {1, 2}, bcs : BcChoices, ds : DsChoices,
             bq : {"none", "sym", "asym"}, eta : {-1, 3}, fdmBasis : BOOLEAN,
             lineOk : BOOLEAN, mapping : {"identity", "other"}, immersed : BOOLEAN] :
        \* what the mesh and the space allow
        /\ c.mesh = "extruded" => ~c.dg /\ Len(c.bcs) > 0
        /\ c.mesh # "interval" => c.degree = 1 /\ c.bsize = 1
        /\ c.degree = 2 => c.bsize = 1 /\ c.bcs \in {<< >>, OnBoundaryAll}
        /\ c.bsize = 1 => c.bq # "asym"
        /\ \A i \in DOMAIN c.bcs :
              /\ c.bcs[i].idx < c.bsize
              /\ c.bcs[i].idx # AllComponents => c.bsize = 2
              /\ c.bcs[i].kind \in {"top", "bottom"} => c.mesh = "extruded"
        /\ ~c.dg => c.eta = -1 /\ c.ds = << >>
        /\ c.dg => Len(c.bcs) <= 1 /\ \A i \in DOMAIN c.bcs : c.bcs[i].kind = "on_boundary"
        /\ c.dg /\ c.degree = 2 => c.bcs = << >>
        /\ c.ds # << >> => c.bsize = 1 \/ c.ds[1].everywhere
        \* one variation at a time around the plain problem
        /\ c.bq # "none" => /\ c.mesh = "interval" /\ c.degree = 1 /\ c.ds = << >>
                            /\ c.bcs \in {<< >>, OnBoundaryAll}
                            /\ c.eta = -1 /\ c.fdmBasis /\ ~Failing(c)
        /\ c.eta # -1 => /\ c.degree = 1 /\ c.bsize = 1 /\ c.bcs = << >> /\ c.ds = << >>
                         /\ c.fdmBasis /\ ~Failing(c)
        /\ ~c.fdmBasis => c.mesh = "interval" /\ c.degree = 1 /\ c.ds = << >>
                          /\ (c.dg => Failing(c))
        /\ ~c.lineOk => c.mapping = "identity" /\ ~c.immersed
        /\ c.mapping # "identity" => ~c.immersed
        /\ Failing(c) => /\ c.mesh = "interval" /\ c.degree = 1 /\ c.bsize = 1
                         /\ c.bcs = << >> /\ c.ds = << >> }

(***************************************************************************)
(* The change of basis and the inner preconditioner.  Both are linear maps *)
(* supplied from outside; fdm_interp is a fixed bidiagonal matrix and the  *)
(* inner preconditioner acts with the assembled operator P.                *)
(***************************************************************************)
Dofs(c) == 0..(NumDofs(c) - 1)

At(v, d) == IF d \in DOMAIN v THEN v[d] ELSE 0

\* fdm_interp.mult
InterpMult(c, v) == [d \in Dofs(c) |-> v[d] + At(v, d + 1)]

\* fdm_interp.multTranspose
InterpMultTranspose(c, v) == [d \in Dofs(c) |-> v[d] + At(v, d - 1)]

RECURSIVE SumOver(_, _, _)
SumOver(f, d, n) == IF d >= n THEN 0 ELSE f[d] + SumOver(f, d + 1, n)

\* self.pc.apply
InnerApply(c, P, v) ==
    [d \in Dofs(c) |-> SumOver([e \in Dofs(c) |-> Get(P, d, e) * v[e]], 0, NumDofs(c))]

\* self.pc.applyTranspose
InnerApplyTranspose(c, P, v) ==
    [d \in Dofs(c) |-> SumOver([e \in Dofs(c) |-> Get(P, e, d) * v[e]], 0, NumDofs(c))]

\* the vectors the outer solver hands to apply and applyTranspose
InputVectors(c) == { [d \in Dofs(c) |-> d + 1], [d \in Dofs(c) |-> 3 - 2 * d] }

(***************************************************************************)
(* State.                                                                  *)
(*   cfg     the problem (fixed along a behaviour)                         *)
(*   lin     the linearization point of the outer solver                   *)
(*   self    the attributes of the FDMPC object                            *)
(*   proc    process-wide state: the lru_cache of get_bc_flags (entries by *)
(*           recency, the least recently used first), the number of times  *)
(*           its body ran for each pair, the number of catalogs built by   *)
(*           fdm_setup_cg / fdm_setup_ipdg, and the number of controllers  *)
(*           created                                                       *)
(*   io      the last handler run and its error; when that handler is      *)
(*           apply or applyTranspose, its vectors x and y and the contents *)
(*           it left in the work vectors; when it is a call of             *)
(*           get_bc_flags, the array it returned and whether the cache     *)
(*           held it; when it is initialize or update, the assembly        *)
(*           callables it ran, in their order                              *)
(***************************************************************************)
VARIABLES cfg, lin, self, proc, io

vars == <<cfg, lin, self, proc, io>>

NoVec == << >>

Ran(op, err) ==
    [op |-> op, err |-> err, x |-> NoVec, y |-> NoVec, work |-> NoVec, diag |-> NoVec,
     ret |-> NoVec, hit |-> FALSE, steps |-> << >>]

\* a new FDMPC object: no attribute is set.  catalogsTouched tells that one of
\* the assemblies of the object changed or destroyed an entry of Afdm.
FreshSelf ==
    [phase |-> "uninitialized",
     has |-> {},
     Alin |-> -1,
     bc_nodes |-> {},
     callables |-> << >>,
     coef |-> [Gq |-> EmptyMat, Bq |-> EmptyMat],
     ran |-> << >>,
     pre |-> [ran |-> << >>, steps |-> << >>],
     eta |-> 0,
     Afdm |-> << >>,
     Dfdm |-> << >>,
     bcflags |-> [split |-> FALSE, v |-> EmptyMat],
     prealloc |-> {},
     catalogsTouched |-> FALSE,
     P |-> NewMat("none"),
     Plin |-> -1,
     reps |-> 0]

\* a new process: nothing cached, nothing built
FreshProc == [flagCache |-> << >>, flagRuns |-> << >>, builds |-> 0, setups |-> 1]

Init ==
    /\ cfg \in ConfigSet
    /\ lin = 0
    /\ self = FreshSelf
    /\ proc = FreshProc
    /\ io = Ran("new", "none")

(***************************************************************************)
(* FDMPC.assemble_fdm_op: the catalogs, the coefficients, the flags, the   *)
(* preallocation pass and the creation of Pmat.  The result is the object  *)
(* and the process state at the return or at the raise.                    *)
(***************************************************************************)
\* element.degree(): one entry per direction of a tensor-product element
DegreeTuple(c) == [d \in 1..ndim(c) |-> c.degree]

\* lines 194-198: max(degree), or the degree itself when it is a number
MaxDegree(c) ==
    CHOOSE m \in {DegreeTuple(c)[d] : d \in DOMAIN DegreeTuple(c)} :
        \A d \in DOMAIN DegreeTuple(c) : DegreeTuple(c)[d] <= m

\* the fault of ignoring the key "eta" of the application context
PenaltyIgnoresAppctxMutant(c) == (MaxDegree(c) + 1) * (MaxDegree(c) + 1)

\* eta = float(appctx.get("eta", (degree+1)**2))
PenaltyOf(c) == IF c.eta = -1 THEN (MaxDegree(c) + 1) * (MaxDegree(c) + 1) ELSE c.eta

\* lines 207-211: one catalog per line element, each built by a call
LineCatalog(c) == IF c.dg THEN fdm_setup_ipdg(c.degree, PenaltyOf(c)) ELSE fdm_setup_cg(c.degree)

\* get_bc_flags behind @lru_cache(maxsize=10), keyed by (bcs, J)
CacheMaxSize == 10

FlagKey(c) == <<c.bcs, [mesh |-> c.mesh, bsize |-> c.bsize, ds |-> c.ds]>>

\* a hit: the held array is returned and its entry becomes the most recent
LruHit(cache, i) ==
    [value |-> cache[i].value, ran |-> FALSE,
     cache |-> SubSeq(cache, 1, i - 1) \o SubSeq(cache, i + 1, Len(cache)) \o <<cache[i]>>]

\* the fault of a cache that never holds anything: every call runs the body
LruMissAlwaysMutant(cache, key, v) == [value |-> v, ran |-> TRUE, cache |-> << >>]

\* a miss: the body ran and gave v; a full cache drops its least recent entry
LruMiss(cache, key, v) ==
    [value |-> v, ran |-> TRUE,
     cache |-> IF Len(cache) >= CacheMaxSize
               THEN Append(Tail(cache), [key |-> key, value |-> v])
               ELSE Append(cache, [key |-> key, value |-> v])]

\* one call get_bc_flags(bcs, J) through the cache
LruCall(c, cache) ==
    IF \E i \in DOMAIN cache : cache[i].key = FlagKey(c)
    THEN LruHit(cache, CHOOSE i \in DOMAIN cache : cache[i].key = FlagKey(c))
    ELSE LruMiss(cache, FlagKey(c), get_bc_flags(c))

CachedFlags(c, cache) == LruCall(c, cache).value

CacheWith(c, cache) == LruCall(c, cache).cache

\* the number of runs of the body for each pair, after one more call
RunsWith(c, pr) ==
    IF LruCall(c, pr.flagCache).ran
    THEN (FlagKey(c) :> (IF FlagKey(c) \in DOMAIN pr.flagRuns
                         THEN pr.flagRuns[FlagKey(c)] + 1 ELSE 1)) @@ pr.flagRuns
    ELSE pr.flagRuns

\* lines 231-235, or the raise of the preallocation pass
CreatePmat(c, s1, pr2, Afdm, Dfdm, bcflags, pre) ==
    IF pre.err # "none"
    THEN [self |-> s1, proc |-> pr2, err |-> pre.err, Pmat |-> NewMat("none")]
    ELSE [self |-> [s1 EXCEPT !.eta = PenaltyOf(c), !.Afdm = Afdm, !.Dfdm = Dfdm,
                              !.bcflags = bcflags, !.prealloc = pre.A.written,
                              !.catalogsTouched = pre.A.aliased,
                              !.pre = [ran |-> pre.ran, steps |-> pre.A.steps]],
          proc |-> pr2, err |-> "none", Pmat |-> NewMat("aij")]

\* lines 223-230: the preallocation pass on the placeholder coefficients
Preallocate(c, s, pr1, l, Afdm, Dfdm, callables, coef, bcflags) ==
    CreatePmat(c,
               [s EXCEPT !.has = @ \cup {"assembly_callables"},
                         !.callables = callables, !.coef = coef],
               [pr1 EXCEPT !.flagCache = CacheWith(c, pr1.flagCache),
                           !.flagRuns = RunsWith(c, pr1)],
               Afdm, Dfdm, bcflags,
               assemble_kron(NewMat("preallocator"), c, PenaltyOf(c), coef,
                             callables, l, Afdm, Dfdm, bcflags))

\* lines 213-220, after the catalogs were built
AssembleCoefficients(c, s, pr1, l, catalog) ==
    IF c.mapping # "identity"
    THEN [self |-> s, proc |-> pr1, err |-> "NotImplementedError", Pmat |-> NewMat("none")]
    ELSE Preallocate(c, s, pr1, l,
                     [d \in 1..ndim(c) |-> catalog.Afdm],
                     [d \in 1..ndim(c) |-> catalog.Dfdm],
                     IF HasBq(c) THEN <<"Gq", "Bq">> ELSE <<"Gq">>,
                     PlaceholderCoef(FreshCoef(c)),
                     CachedFlags(c, pr1.flagCache))

assemble_fdm_op(c, s, pr, l) ==
    IF ~c.lineOk
    THEN [self |-> s, proc |-> pr, err |-> "ValueError", Pmat |-> NewMat("none")]
    ELSE AssembleCoefficients(c, s, [pr EXCEPT !.builds = @ + ndim(c)], l, LineCatalog(c))

\* self._assemble_P(): assemble_kron on Pmat with the arguments bound at setup
Assembled(s, l, r) ==
    [self |-> [s EXCEPT !.P = r.A, !.coef = r.coef, !.ran = r.ran,
                        !.catalogsTouched = @ \/ r.A.aliased,
                        !.reps = IF s.Plin = l THEN @ + 1 ELSE 1,
                        !.Plin = l],
     err |-> r.err]

RunAssembleP(c, s, l) ==
    Assembled(s, l, assemble_kron(s.P, c, s.eta, s.coef, s.callables, l,
                                  s.Afdm, s.Dfdm, s.bcflags))

\* the fault of restoring the nodes of the first condition only
BcNodesFirstOnlyMutant(c) ==
    IF Len(c.bcs) > 0 THEN bcdofs(c, c.bcs[1]) ELSE {}

\* lines 105-108
BcNodesOf(c) ==
    IF Len(c.bcs) > 0 THEN UNION {bcdofs(c, c.bcs[i]) : i \in DOMAIN c.bcs} ELSE {}

\* FDMPC.initialize up to its return or its raise
\* lines 57-108: everything before the call of assemble_fdm_op
BeforeOperator(c, s, l) ==
    LET s1 == IF c.fdmBasis
              THEN [s EXCEPT !.has = @ \cup {"_ctx_ref"}]
              ELSE [s EXCEPT !.has = @ \cup {"fdm_interp", "A", "_assemble_A", "_ctx_ref"},
                             !.Alin = l]
    IN  [s1 EXCEPT !.has = @ \cup {"work", "diag", "_assemble_diag", "bc_nodes"},
                   !.bc_nodes = BcNodesOf(c)]

\* lines 114-133: the inner preconditioner, once P was assembled
CreateInner(pr, asm) ==
    IF asm.err # "none"
    THEN [self |-> [asm.self EXCEPT !.phase = "failed"], proc |-> pr, err |-> asm.err]
    ELSE [self |-> [asm.self EXCEPT !.has = @ \cup {"_dm", "pc"}, !.phase = "initialized"],
          proc |-> pr, err |-> "none"]

\* lines 111-113: Pmat, self._assemble_P and its first call
FirstAssembly(c, l, op) ==
    IF op.err # "none"
    THEN [self |-> [op.self EXCEPT !.phase = "failed"], proc |-> op.proc, err |-> op.err]
    ELSE CreateInner(op.proc,
                     RunAssembleP(c, [op.self EXCEPT !.has = @ \cup {"_assemble_P"},
                                                     !.P = op.Pmat], l))

\* FDMPC.initialize up to its return or its raise
initialize(c, s, pr, l) ==
    FirstAssembly(c, l, assemble_fdm_op(c, BeforeOperator(c, s, l), pr, l))

(***************************************************************************)
(* Actions: one per handler of the controller, and the moves of the outer  *)
(* solver.                                                                 *)
(***************************************************************************)
\* the assembly callables an object with the attributes has ran: line 95, line 112
CallablesRan(has) ==
    (IF "_assemble_A" \in has THEN <<"_assemble_A">> ELSE << >>)
      \o (IF "_assemble_P" \in has THEN <<"_assemble_P">> ELSE << >>)

Initialize ==
    /\ self.phase = "uninitialized"
    /\ \E r \in {initialize(cfg, self, proc, lin)} :
           /\ self' = r.self
           /\ proc' = r.proc
           /\ io' = [Ran("initialize", r.err) EXCEPT !.steps = CallablesRan(r.self.has)]
    /\ UNCHANGED <<cfg, lin>>

\* the fault of an update that leaves the outer operator as it was
AssembleOuterNeverMutant(s, l) == [self |-> s, steps |-> << >>]

\* lines 136-137: if hasattr(self, "A"): self._assemble_A()
AssembleOuter(s, l) ==
    IF "A" \in s.has
    THEN [self |-> [s EXCEPT !.Alin = l], steps |-> <<"_assemble_A">>]
    ELSE [self |-> s, steps |-> << >>]

\* FDMPC.update
Update ==
    /\ self.phase = "initialized"
    /\ ~(self.Plin = lin /\ self.reps >= MaxRepeat)
    /\ \E a \in {AssembleOuter(self, lin)} :
         \E r \in {RunAssembleP(cfg, a.self, lin)} :
           /\ self' = (IF r.err = "none" THEN r.self
                       ELSE [r.self EXCEPT !.phase = "failed"])
           /\ io' = [Ran("update", r.err) EXCEPT !.steps = a.steps \o <<"_assemble_P">>]
    /\ UNCHANGED <<cfg, lin, proc>>

\* FDMPC.apply and FDMPC.applyTranspose.  The solver sets the preconditioner up
\* (update) before it applies it, so P belongs to the current linearization point.
ApplyWith(xin, transpose) ==
    LET inner(v) == IF transpose THEN InnerApplyTranspose(cfg, self.P.m, v)
                    ELSE InnerApply(cfg, self.P.m, v)
    IN  IF "fdm_interp" \in self.has
        THEN LET x_fdm == InterpMultTranspose(cfg, xin)
                 y_fdm == inner(x_fdm)
                 y0 == InterpMult(cfg, y_fdm)
             IN  [op |-> IF transpose THEN "applyTranspose" ELSE "apply",
                  err |-> "none", x |-> xin,
                  y |-> [d \in Dofs(cfg) |->
                           IF d \in self.bc_nodes THEN xin[d] ELSE y0[d]],
                  work |-> x_fdm, diag |-> y_fdm, ret |-> NoVec, hit |-> FALSE, steps |-> << >>]
        ELSE [op |-> IF transpose THEN "applyTranspose" ELSE "apply",
              err |-> "none", x |-> xin, y |-> inner(xin),
              work |-> NoVec, diag |-> NoVec, ret |-> NoVec, hit |-> FALSE, steps |-> << >>]

Apply ==
    /\ self.phase = "initialized"
    /\ self.Plin = lin
    /\ \E xin \in InputVectors(cfg) : io' = ApplyWith(xin, FALSE)
    /\ UNCHANGED <<cfg, lin, self, proc>>

ApplyTranspose ==
    /\ self.phase = "initialized"
    /\ self.Plin = lin
    /\ \E xin \in InputVectors(cfg) : io' = ApplyWith(xin, TRUE)
    /\ UNCHANGED <<cfg, lin, self, proc>>

\* the outer solver moves to another linearization point
Relinearize ==
    /\ self.phase = "initialized"
    /\ \E l \in 0..MaxProfile : l # lin /\ lin' = l
    /\ UNCHANGED <<cfg, self, proc, io>>

\* the solver is set up again: a new FDMPC object in the same process
NewController ==
    /\ self.phase \in {"initialized", "failed"}
    /\ proc.setups < MaxSetups
    /\ self' = FreshSelf
    /\ proc' = [proc EXCEPT !.setups = @ + 1]
    /\ io' = Ran("new", "none")
    /\ UNCHANGED <<cfg, lin>>

Next ==
    \/ Initialize
    \/ Update
    \/ Apply
    \/ ApplyTranspose
    \/ Relinearize
    \/ NewController

Spec == Init /\ [][Next]_vars

(***************************************************************************)
(* The cache of get_bc_flags under calls for many pairs (bcs, J): several  *)
(* problems are set up in one process.  The pairs are the first NumPairs   *)
(* of a list of conditions and forms on the three meshes with a            *)
(* 2-component space; a call is for the first pair, for the pair of the    *)
(* last call, or for the pair after it, and the body runs at most          *)
(* MaxFlagRuns times.                                                      *)
(***************************************************************************)
NumPairs == 12

MaxFlagRuns == 14

\* the pairs: <<mesh, bcs, integrals of J>>
FlagPairs ==
    << <<"interval", << >>, << >> >>,
       <<"extruded", <<Bc("ids", {1}, 0)>>, <<Ds("exterior_facet_vert", TRUE, {})>> >>,
       <<"interval", <<Bc("on_boundary", {}, 0)>>, <<Ds("exterior_facet", FALSE, {2})>> >>,
       <<"extruded", <<Bc("top", {}, AllComponents)>>,
                     <<Ds("exterior_facet_bottom", TRUE, {})>> >>,
       <<"interval", <<Bc("on_boundary", {}, AllComponents)>>,
                     <<Ds("exterior_facet", TRUE, {})>> >>,
       <<"extruded", << >>, <<Ds("exterior_facet_top", TRUE, {})>> >>,
       <<"quad", <<Bc("ids", {1}, 0), Bc("ids", {2}, 1)>>, <<Ds("exterior_facet", TRUE, {})>> >>,
       <<"extruded", <<Bc("bottom", {}, 1)>>, <<Ds("exterior_facet_vert", FALSE, {2})>> >>,
       <<"interval", <<Bc("ids", {1}, AllComponents), Bc("ids", {2}, AllComponents)>>, << >> >>,
       <<"quad", << >>, <<Ds("exterior_facet", FALSE, {1})>> >>,
       <<"interval", <<Bc("ids", {1}, 1)>>, <<Ds("exterior_facet", TRUE, {})>> >>,
       <<"extruded", <<Bc("on_boundary", {}, AllComponents)>>, << >> >>,
       <<"quad", <<Bc("on_boundary", {}, 1)>>, << >> >>,
       <<"interval", <<Bc("ids", {2}, 0)>>, <<Ds("exterior_facet", FALSE, {1})>> >> >>

FlagProblem(i) ==
    [mesh |-> FlagPairs[i][1], dg |-> FALSE, degree |-> 1, bsize |-> 2,
     bcs |-> FlagPairs[i][2], ds |-> FlagPairs[i][3],
     bq |-> "none", eta |-> -1, fdmBasis |-> TRUE, lineOk |-> TRUE,
     mapping |-> "identity", immersed |-> FALSE]

\* the number of the pair of the last call
PairOf(c) == CHOOSE i \in 1..NumPairs : FlagProblem(i) = c

TotalRuns(runs) == SumOver([i \in 0..(NumPairs - 1) |->
                              IF FlagKey(FlagProblem(i + 1)) \in DOMAIN runs
                              THEN runs[FlagKey(FlagProblem(i + 1))] ELSE 0], 0, NumPairs)

InitFlags ==
    /\ cfg = FlagProblem(1)
    /\ lin = 0
    /\ self = FreshSelf
    /\ proc = FreshProc
    /\ io = Ran("new", "none")

\* one call get_bc_flags(bcs, J)
GetBcFlags ==
    /\ \E i \in {1, PairOf(cfg), (PairOf(cfg) % NumPairs) + 1} :
          /\ LruCall(FlagProblem(i), proc.flagCache).ran => TotalRuns(proc.flagRuns) < MaxFlagRuns
          /\ cfg' = FlagProblem(i)
          /\ proc' = [proc EXCEPT !.flagCache = CacheWith(FlagProblem(i), proc.flagCache),
                                  !.flagRuns = RunsWith(FlagProblem(i), proc)]
          /\ io' = [Ran("get_bc_flags", "none") EXCEPT
                      !.ret = CachedFlags(FlagProblem(i), proc.flagCache),
                      !.hit = ~LruCall(FlagProblem(i), proc.flagCache).ran]
    /\ UNCHANGED <<lin, self>>

NextFlags == GetBcFlags

SpecFlags == InitFlags /\ [][NextFlags]_vars

(***************************************************************************)
(* Third specification: the index maps of an extruded mesh.  The base mesh *)
(* is a row of nelv cells (intervals, or quadrilaterals of a strip); column*)
(* b holds nelz[b] cells.  A problem is a record [basedim, nelv, variable, *)
(* nelz]; the layers array has one row when the number of layers is        *)
(* constant and one row per column when it is variable.  The steps are the *)
(* lookups of one pass of the cell loop and of the facet loop of           *)
(* assemble_kron.                                                          *)
(***************************************************************************)
\* the largest number of columns and of layers of a column
MaxColumns == 3

MaxLayers == 3

IndexProblems ==
    UNION {{[basedim |-> d, nelv |-> n, variable |-> v, nelz |-> z] :
              d \in {1, 2}, v \in {w \in BOOLEAN : w => n >= 2},
              z \in {zz \in [1..n -> 1..MaxLayers] : \A b \in 1..n : zz[b] = zz[1]}}
             \cup {[basedim |-> d, nelv |-> n, variable |-> TRUE, nelz |-> z] :
                     d \in {1, 2}, z \in {zz \in [1..n -> 1..MaxLayers] : n >= 2}} :
           n \in 1..MaxColumns}

\* mesh.cell_set.layers_array
LayersArray(p) ==
    IF p.variable THEN [b \in 1..p.nelv |-> <<0, p.nelz[b] + 1>>]
    ELSE << <<0, p.nelz[1] + 1>> >>

\* the number of facets of a base cell
BaseFacets(p) == 2 * p.basedim

\* the number of cells in the columns before column b
CellsBefore(p, b) == SumSeq(SubSeq(p.nelz, 1, b))

\* Gq.cell_node_map(): one node per cell, numbered column after column
IndexCoefMap(p) ==
    [values |-> [b \in 1..p.nelv |-> <<CellsBefore(p, b - 1)>>],
     offset |-> <<1>>,
     layers |-> LayersArray(p)]

\* V.cell_node_map() of a discontinuous space with two nodes per cell
IndexCellMap(p) ==
    [values |-> [b \in 1..p.nelv |-> <<2 * CellsBefore(p, b - 1), 2 * CellsBefore(p, b - 1) + 1>>],
     offset |-> <<2, 2>>,
     layers |-> LayersArray(p)]

\* mesh.cell_to_facets of the base mesh: the two ends of the row carry the
\* ids 1 and 2, the long sides of a strip the id 3
IndexBaseCellToFacets(p) ==
    [b \in 0..(p.nelv - 1) |->
       [f \in 0..(BaseFacets(p) - 1) |->
          IF f = 0 THEN (IF b = 0 THEN <<0, 1>> ELSE <<1, -1>>)
          ELSE IF f = 1 THEN (IF b = p.nelv - 1 THEN <<0, 2>> ELSE <<1, -1>>)
          ELSE <<0, 3>>]]

\* DGT.cell_node_map(): one node per facet of a cell; the nodes of column b
\* are numbered from b * DgtBlock(p), facet after facet, and the top of a
\* cell is the bottom of the next one
DgtBlock(p) == (BaseFacets(p) + 1) * (MaxLayers + 1)

IndexDgtMap(p) ==
    [values |-> [b \in 1..p.nelv |->
                   [f \in 1..(BaseFacets(p) + 2) |->
                      IF f <= BaseFacets(p) + 1
                      THEN (b - 1) * DgtBlock(p) + (f - 1) * (MaxLayers + 1)
                      ELSE (b - 1) * DgtBlock(p) + BaseFacets(p) * (MaxLayers + 1) + 1]],
     offset |-> [f \in 1..(BaseFacets(p) + 2) |-> 1],
     layers |-> LayersArray(p)]

\* lines 892-901: w on the node of a facet, after bc_h was applied: positive on
\* an interior facet, -2 on the bottom, -4 on the top, 0 on the other facets
MarkerAt(p, node) ==
    LET b == node \div DgtBlock(p)
        f == (node % DgtBlock(p)) \div (MaxLayers + 1)
        h == (node % DgtBlock(p)) % (MaxLayers + 1)
        other == IF f = 0 THEN b - 1 ELSE b + 1
    IN  IF f = BaseFacets(p)
        THEN (IF h = 0 THEN -2 ELSE IF h = p.nelz[b + 1] THEN -4 ELSE 2)
        ELSE IF IndexBaseCellToFacets(p)[b][f][1] # 0 /\ h < p.nelz[other + 1] THEN 2
        ELSE 0

\* lines 877-911: cell_to_facets of the extruded mesh, one row per cell
ExtrudeCellToFacets(p) ==
    LET layers == LayersArray(p)
        base == IndexBaseCellToFacets(p)
        nfacet == BaseFacets(p)
        nelz == LayerCounts(layers)
        nel == IF Len(layers) = 1 THEN p.nelv * nelz[1] ELSE SumSeq(nelz)
        rows == IF Len(layers) = 1 THEN RepeatArange([b \in 1..p.nelv |-> nelz[1]], 0)
                ELSE RepeatArange(nelz, 0)
        nodes == glonum(IndexDgtMap(p))
    IN  [e \in 0..(nel - 1) |->
           [f \in 0..(nfacet + 1) |->
              IF MarkerAt(p, nodes[e + 1][f + 1]) > 0 THEN <<1, -1>>
              ELSE IF MarkerAt(p, nodes[e + 1][f + 1]) < 0
                   THEN <<0, MarkerAt(p, nodes[e + 1][f + 1])>>
              ELSE IF f < nfacet THEN base[rows[e + 1]][f] ELSE <<0, 0>>]]

InitIndex ==
    /\ cfg \in IndexProblems
    /\ lin = 0
    /\ self = FreshSelf
    /\ proc = FreshProc
    /\ io = Ran("new", "none")

\* lines 312-315: the lookups of the cell loop for one e in range(nel)
LookupCell ==
    /\ \E e \in 0..(glonum_fun(IndexCellMap(cfg)).nel - 1) :
          io' = [Ran("cell", "none") EXCEPT
                    !.ret = [e |-> e,
                             ie |-> glonum_fun(IndexCellMap(cfg)).index[e],
                             je |-> glonum_fun(IndexCoefMap(cfg)).index[e],
                             bce |-> ExtrudeCellToFacets(cfg)[e]]]
    /\ UNCHANGED <<cfg, lin, self, proc>>

\* the maps of the facet loop (lines 357-358), the interior facet node map
\* listing the nodes of the two columns of a base facet
IndexFacetsOf(p, cmap) ==
    InteriorFacetMaps([values |-> [f \in 1..(p.nelv - 1) |-> cmap.values[f] \o cmap.values[f + 1]],
                       offset |-> cmap.offset \o cmap.offset,
                       layers |-> cmap.layers], cmap,
                      [f \in 0..(p.nelv - 2) |-> <<1, 0>>],
                      FacetToCells(p.nelv - 1), TRUE, p.variable)

\* lines 359-364: the lookups of the facet loop for one e in range(nfacets)
LookupFacet ==
    /\ \E e \in 0..(IndexFacetsOf(cfg, IndexCellMap(cfg)).nfacets - 1) :
          io' = [Ran("facet", "none") EXCEPT
                    !.ret = [e |-> e,
                             ie |-> IndexFacetsOf(cfg, IndexCellMap(cfg)).index[e],
                             je |-> IndexFacetsOf(cfg, IndexCoefMap(cfg)).index[e],
                             lfd |-> IndexFacetsOf(cfg, IndexCellMap(cfg)).lfd[e],
                             idir |-> [i \in 1..2 |->
                                         IndexFacetsOf(cfg, IndexCellMap(cfg)).lfd[e][i] \div 2]]]
    /\ UNCHANGED <<cfg, lin, self, proc>>

NextIndex == LookupCell \/ LookupFacet

SpecIndex == InitIndex /\ [][NextIndex]_vars

(***************************************************************************)
(* Properties.                                                             *)
(***************************************************************************)
\* the orders in which n cells or n facets can be visited
Orders(n) == {s \in [1..n -> 0..(n - 1)] : \A i, j \in 1..n : i # j => s[i] # s[j]}

\* C1: once assemble_kron has completed on the real matrix, the row of every
\* globally-eliminated DOF holds 1 on the diagonal and 0 in every other column,
\* whatever was scattered and however often the assembly was repeated.
DirichletRowsAreIdentity ==
    self.P.assembled =>
        \A r \in EliminatedRows(cfg) : \A col \in Dofs(cfg) :
            Get(self.P.m, r, col) = (IF col = r THEN 1 ELSE 0)

\* a constrained problem with a reaction term, assembled twice in a row
DirichletRowsReassembled ==
    /\ self.P.assembled
    /\ self.reps >= 2
    /\ HasBq(cfg)
    /\ EliminatedRows(cfg) # {}
    /\ EliminatedRows(cfg) # Dofs(cfg)

\* C2: an update at the linearization point P was assembled at leaves every
\* entry of P as it was: nothing accumulates from one assembly to the next.
UpdateIsIdempotent ==
    [][(io'.op = "update" /\ self.Plin = lin /\ self.P.assembled)
          => (self'.P.assembled /\ self'.P.m = self.P.m)]_vars

\* the second assembly in a row was an update, and there are identity rows
UpdatedTwiceInARow ==
    /\ io.op = "update"
    /\ io.err = "none"
    /\ self.reps >= 2
    /\ EliminatedRows(cfg) # {}

\* C3: whatever the order in which the cells and the interior facets are
\* scattered, assemble_kron produces the entries it produces in increasing order.
ScatterOrderIsIrrelevant ==
    (io.op = "initialize" /\ io.err = "none") =>
        \A cellOrder \in Orders(glonum_fun(CellNodeMap(cfg)).nel) :
          \A facetOrder \in Orders(get_interior_facet_maps(cfg, CellNodeMap(cfg)).nfacets) :
            AssembleKronOrdered(NewMat("aij"), cfg, self.eta, self.coef, self.callables,
                                self.Plin, self.Afdm, self.Dfdm, self.bcflags,
                                cellOrder, facetOrder).A.m = self.P.m

\* an operator with cell and facet terms that meet in the same entries
ScatteredCellsAndFacets ==
    /\ io.op = "initialize"
    /\ io.err = "none"
    /\ cfg.dg
    /\ cfg.mesh = "quad"
    /\ get_interior_facet_maps(cfg, CellNodeMap(cfg)).nfacets >= 2
    /\ \E p \in DOMAIN self.P.m : p[1] # p[2] /\ self.P.m[p] # 0

\* C4: the positions written by a real assembly are exactly the positions the
\* preallocation pass wrote with the placeholder coefficients.
PatternIsPreallocated ==
    self.P.assembled => self.P.written = self.prealloc

\* a real assembly at coefficients other than those of the first assembly
AssembledAtOtherCoefficients ==
    /\ self.P.assembled
    /\ self.Plin # 0
    /\ cfg.mesh = "quad"
    /\ EliminatedRows(cfg) # {}
    /\ self.prealloc # {}

\* C5: with symmetric coefficients the assembled entry at (r, c) equals the
\* entry at (c, r), for all rows r and c.
OperatorIsSymmetric ==
    (self.P.assembled /\ cfg.bq # "asym") =>
        \A r \in Dofs(cfg) : \A col \in Dofs(cfg) :
            Get(self.P.m, r, col) = Get(self.P.m, col, r)

\* a symmetric reaction block on a constrained vector space, with coupling
SymmetricWithEliminatedRows ==
    /\ self.P.assembled
    /\ cfg.bq = "sym"
    /\ cfg.bsize = 2
    /\ EliminatedRows(cfg) # {}
    /\ \E p \in DOMAIN self.P.m : p[1] # p[2] /\ self.P.m[p] # 0

\* C6: apply and applyTranspose return, with a change of basis, the input at the
\* globally-eliminated DOFs and elsewhere the input taken to the FDM basis, through
\* the inner preconditioner and back; without one, the inner preconditioner's output.
ApplyRestoresEliminated ==
    io.op \in {"apply", "applyTranspose"} =>
        \E inner \in {IF io.op = "apply" THEN InnerApply(cfg, self.P.m, io.x)
                      ELSE InnerApplyTranspose(cfg, self.P.m, io.x)},
           back \in {InterpMult(cfg,
                        IF io.op = "apply"
                        THEN InnerApply(cfg, self.P.m, InterpMultTranspose(cfg, io.x))
                        ELSE InnerApplyTranspose(cfg, self.P.m,
                                                 InterpMultTranspose(cfg, io.x)))} :
            IF "fdm_interp" \in self.has
            THEN \A d \in Dofs(cfg) :
                    io.y[d] = (IF d \in EliminatedRows(cfg) THEN io.x[d] ELSE back[d])
            ELSE io.y = inner

\* applyTranspose with a change of basis, where restoring the input changed y
TransposeAppliedWithRestore ==
    /\ io.op = "applyTranspose"
    /\ "fdm_interp" \in self.has
    /\ \E d \in EliminatedRows(cfg) : io.y[d] # InterpMult(cfg, io.diag)[d]
    /\ EliminatedRows(cfg) # Dofs(cfg)

\* C7: every interior facet has flag 0 on every component.
InteriorFacetsAreNatural ==
    self.phase = "initialized" =>
        \A e \in DOMAIN CellToFacets(cfg) : \A k \in 0..(cfg.bsize - 1) :
          \A f \in DOMAIN CellToFacets(cfg)[e] :
            CellToFacets(cfg)[e][f][1] # 0 => CellFlags(cfg, self.bcflags, e, k)[f] = 0

\* the components an "on_boundary" condition applies to
ComponentsOf(bc, bsize) == IF bc.idx = AllComponents THEN 0..(bsize - 1) ELSE {bc.idx}

SetBeforeOperator == {"_ctx_ref", "work", "diag", "_assemble_diag", "bc_nodes"}

\* C9 as stated: a failed initialize leaves nothing it built on the controller.
FailedInitializeLeavesNothing ==
    (io.op = "initialize" /\ io.err # "none") =>
        (self.has = {} /\ self.P.type = "none")

\* C9: a failed initialize leaves no inner preconditioner, no assembly routine
\* and no matrix, but keeps the attributes it set before the failing step; a
\* successful one leaves the assembled operator; no state holds an operator
\* that is not fully assembled.
NoPartialOperator ==
    /\ (io.op = "initialize" /\ io.err # "none") =>
          /\ self.phase = "failed"
          /\ self.has \cap {"pc", "_dm", "_assemble_P"} = {}
          /\ self.P.type = "none"
          /\ SetBeforeOperator \subseteq self.has
          /\ ~cfg.fdmBasis => {"fdm_interp", "A", "_assemble_A"} \subseteq self.has
    /\ (io.op = "initialize" /\ io.err = "none") =>
          /\ self.phase = "initialized"
          /\ {"pc", "_assemble_P"} \subseteq self.has
          /\ self.P.assembled
    /\ self.P.type # "none" => self.P.assembled

\* initialize stopped in the preallocation pass, on the geometry of the mesh
FailedInPreallocation ==
    /\ io.op = "initialize"
    /\ io.err = "NotImplementedError"
    /\ cfg.immersed
    /\ "assembly_callables" \in self.has

\* C10: the catalog of a (element, degree, penalty) combination is built once in
\* the process (every run of the model has a single combination).
CatalogBuiltOnce == proc.builds <= 1
(***************************************************************************)
(* The cache of the boundary flags.                                        *)
(***************************************************************************)
\* C11 as stated: the body of get_bc_flags runs at most once for each pair.
FlagsBuiltOncePerPair == \A k \in DOMAIN proc.flagRuns : proc.flagRuns[k] <= 1

KeysOf(cache) == {cache[i].key : i \in DOMAIN cache}

NotKey(key, e) == e.key # key

\* the entries of cache other than the one of key, in their order
Others(cache, key) == SelectSeq(cache, LAMBDA e : NotKey(key, e))

RunsOf(runs, key) == IF key \in DOMAIN runs THEN runs[key] ELSE 0

\* C11: a call for a pair the cache holds returns the held array, which is the
\* array the body computes for that pair, and the body does not run; a call for
\* a pair it does not hold runs the body once.  The called pair becomes the most
\* recent entry and the cache keeps at most CacheMaxSize entries, dropping the
\* least recently used one.
FlagsCachedWhileHeld ==
    [][io'.op = "get_bc_flags" =>
         LET key == FlagKey(cfg')
             old == proc.flagCache
             held == key \in KeysOf(old)
             rest == Others(old, key)
         IN  /\ io'.ret = get_bc_flags(cfg')
             /\ io'.hit = held
             /\ held => /\ proc'.flagRuns = proc.flagRuns
                        /\ \E i \in DOMAIN old : old[i].key = key /\ old[i].value = io'.ret
             /\ ~held => /\ RunsOf(proc'.flagRuns, key) = RunsOf(proc.flagRuns, key) + 1
                         /\ \A k \in DOMAIN proc.flagRuns :
                               k # key => proc'.flagRuns[k] = proc.flagRuns[k]
             /\ proc'.flagCache =
                   Append(IF ~held /\ Len(old) >= CacheMaxSize THEN Tail(rest) ELSE rest,
                          [key |-> key, value |-> io'.ret])
             /\ Len(proc'.flagCache) <= CacheMaxSize]_vars

\* a pair built once is returned from a full cache after other pairs were called
FlagsHitAfterOtherPairs ==
    /\ io.op = "get_bc_flags" /\ io.hit
    /\ Len(proc.flagCache) = CacheMaxSize
    /\ cfg = FlagProblem(1)
    /\ proc.flagCache[CacheMaxSize - 1].key # FlagKey(cfg)
(***************************************************************************)
(* update.                                                                 *)
(***************************************************************************)
\* a step of update: the handler ran last and the object changed
UpdateStep == io'.op = "update" /\ self' # self

\* C12: an update of an initialized object runs _assemble_A first when the FDM
\* basis differs from the element, and only then; it always runs _assemble_P,
\* which leaves the sparse operator assembled for the current linearization
\* point on the preallocated pattern; apply and applyTranspose stay usable; the
\* attributes, the flags, the catalogs, the pattern and the process-wide caches
\* are left as they were.
UpdateReassembles ==
    [][UpdateStep =>
         /\ io'.err = "none"
         /\ io'.steps = IF cfg.fdmBasis THEN <<"_assemble_P">>
                         ELSE <<"_assemble_A", "_assemble_P">>
         /\ self'.Alin = IF cfg.fdmBasis THEN self.Alin ELSE lin
         /\ self'.P.assembled /\ self'.Plin = lin
         /\ self'.coef = RunCallables(cfg, self.coef, self.callables, lin)
         /\ self'.P.written = self.prealloc
         /\ self'.phase = "initialized"
         /\ self'.has = self.has /\ self'.bc_nodes = self.bc_nodes
         /\ self'.bcflags = self.bcflags /\ self'.prealloc = self.prealloc
         /\ self'.Afdm = self.Afdm /\ self'.Dfdm = self.Dfdm /\ self'.eta = self.eta
         /\ proc' = proc]_vars

\* a repeated update at another linearization point with a change of basis
UpdatedOuterAndSparse ==
    /\ io.op = "update" /\ ~cfg.fdmBasis
    /\ lin # 0 /\ self.Alin = lin /\ self.Plin = lin /\ self.reps >= 2
(***************************************************************************)
(* The 1-D catalogs.                                                       *)
(***************************************************************************)
\* the endpoints of the interval element that the states (bc0, bc1) constrain
ConstrainedEnds(n, bc) ==
    (IF bc[1] = 1 THEN {0} ELSE {}) \cup (IF bc[2] = 1 THEN {n - 1} ELSE {})

\* C13 as stated: in the continuous catalog the variant of (bc0, bc1) is the
\* transformed stiffness matrix with every off-diagonal entry in the row or the
\* column of a constrained endpoint zeroed and every other entry unchanged.
StrongVariantsZeroConstrained ==
    (self.phase = "initialized" /\ ~cfg.dg) =>
        \A d \in DOMAIN self.Afdm : \A i \in 1..4 :
            \A r \in 0..(N1(cfg) - 1) : \A c \in 0..(N1(cfg) - 1) :
                Get(self.Afdm[d][1 + i].v, r, c) =
                    IF r # c /\ ({r, c} \cap ConstrainedEnds(N1(cfg), VariantOrder[i]) # {})
                    THEN 0
                    ELSE fdm_setup(cfg.degree).A[<<r, c>>]

\* C14: once the catalogs are stored, every state after a preallocation, an
\* assembly or an update holds them with the values they were built with, and
\* no scaling, accumulation or destroy of an assembly reached one of their
\* entries.
CatalogsAreReadOnly ==
    self.Afdm # << >> =>
        /\ ~self.catalogsTouched
        /\ ~self.P.aliased
        /\ self.Afdm = [d \in 1..ndim(cfg) |-> LineCatalog(cfg).Afdm]
        /\ self.Dfdm = [d \in 1..ndim(cfg) |-> LineCatalog(cfg).Dfdm]
        /\ \A d \in DOMAIN self.Afdm : \A i \in DOMAIN self.Afdm[d] :
              self.Afdm[d][i].shared /\ ~self.Afdm[d][i].touched

\* the catalogs after an update that scaled, accumulated and destroyed local
\* matrices on a strip of quadrilaterals with interior facets
CatalogsUsedByCellsAndFacets ==
    /\ io.op = "update" /\ self.reps >= 2 /\ lin # 0
    /\ cfg.mesh = "quad" /\ cfg.dg
    /\ self.Afdm # << >>
(***************************************************************************)
(* The flags of the exterior-facet integrals.                              *)
(***************************************************************************)
\* the flag of cell e, component k and facet f in a returned array
FlagAt(flags, e, k, f) == IF flags.split THEN flags.v[<<e, k, f>>] ELSE flags.v[<<e, f>>]

\* the (cell, facet) pairs of the exterior facets
ExteriorFacets(c) ==
    {q \in (DOMAIN CellToFacets(c)) \X (DOMAIN CellToFacets(c)[0]) :
        CellToFacets(c)[q[1]][q[2]][1] = 0}

SubOf(c, q) == CellToFacets(c)[q[1]][q[2]][2]

\* C15 as stated: an exterior-facet integral flags, on every component, every
\* exterior facet of its sub-domain; over "everywhere" that is every exterior
\* facet, or the bottom or the top facets for the bottom and top types.
IntegralFlagsEveryExteriorFacet ==
    io.op = "get_bc_flags" =>
        \A i \in DOMAIN cfg.ds : \A q \in ExteriorFacets(cfg) : \A k \in 0..(cfg.bsize - 1) :
            (/\ IsExteriorIntegral(cfg.ds[i])
             /\ IF ~cfg.ds[i].everywhere THEN SubOf(cfg, q) \in cfg.ds[i].ids
                ELSE IF cfg.ds[i].itype = "exterior_facet_bottom" THEN SubOf(cfg, q) = -2
                ELSE IF cfg.ds[i].itype = "exterior_facet_top" THEN SubOf(cfg, q) = -4
                ELSE TRUE)
            => FlagAt(io.ret, q[1], k, q[2]) = 1

\* C15: an exterior-facet integral flags, on every component, the exterior
\* facets whose sub-domain id it names; over "everywhere" it flags the bottom
\* facets (bottom type), the top facets (top type), and otherwise the exterior
\* facets with a sub-domain id of at least -1, which leaves out the bottom and
\* the top of an extruded mesh.  Component-restricted conditions in the same set
\* do not change that.
IntegralFlagsItsFacets ==
    io.op = "get_bc_flags" =>
        \A i \in DOMAIN cfg.ds : \A q \in ExteriorFacets(cfg) : \A k \in 0..(cfg.bsize - 1) :
            (/\ IsExteriorIntegral(cfg.ds[i])
             /\ IF ~cfg.ds[i].everywhere THEN SubOf(cfg, q) \in cfg.ds[i].ids
                ELSE IF cfg.ds[i].itype = "exterior_facet_bottom" THEN SubOf(cfg, q) = -2
                ELSE IF cfg.ds[i].itype = "exterior_facet_top" THEN SubOf(cfg, q) = -4
                ELSE SubOf(cfg, q) >= -1)
            => FlagAt(io.ret, q[1], k, q[2]) = 1

\* an integral over the vertical facets of an extruded mesh, next to a condition
\* on one component: the vertical facets are flagged on the other component as
\* well, the top facet is not
IntegralNextToComponentCondition ==
    /\ io.op = "get_bc_flags"
    /\ cfg.mesh = "extruded" /\ io.ret.split
    /\ \E i \in DOMAIN cfg.ds : cfg.ds[i].itype = "exterior_facet_vert" /\ cfg.ds[i].everywhere
    /\ \E q \in ExteriorFacets(cfg) :
          SubOf(cfg, q) >= -1 /\ FlagAt(io.ret, q[1], 1, q[2]) = 1
    /\ \E q \in ExteriorFacets(cfg) :
          SubOf(cfg, q) = -4 /\ FlagAt(io.ret, q[1], 1, q[2]) = 0
(***************************************************************************)
(* The interior-facet stage.                                               *)
(***************************************************************************)
\* the matrix that the identity rows and the cell terms alone give
CellsOnly(c, s) ==
    CellStage(IdentityStep(BeginAssembly(NewMat("aij")), c), c, KronMaps(c), s.coef,
              s.Afdm, s.bcflags, Iota(glonum_fun(CellNodeMap(c)).nel)).m

\* C16: when no direction has a tabulation (continuous formulation: the
\* catalogs come from fdm_setup_cg) initialize raises no geometry error, also on an immersed mesh, and the operator holds
\* the cell terms only; when some direction has one and the mesh is immersed,
\* the assembly stops with NotImplementedError and no matrix is ever marked
\* assembled.
FacetStageNeedsTabulation ==
    (io.op = "initialize" /\ cfg.lineOk /\ cfg.mapping = "identity") =>
        IF cfg.dg
        THEN cfg.immersed => /\ io.err = "NotImplementedError"
                             /\ ~self.P.assembled /\ self.P.written = {}
                             /\ "pc" \notin self.has
        ELSE /\ io.err = "none"
             /\ self.P.assembled
             /\ self.P.m = CellsOnly(cfg, self)

\* a continuous problem on an immersed mesh with interior facets, initialized
ContinuousOnImmersedMesh ==
    /\ io.op = "initialize" /\ io.err = "none"
    /\ ~cfg.dg /\ cfg.immersed
    /\ get_interior_facet_maps(cfg, CellNodeMap(cfg)).nfacets > 0
    /\ self.P.assembled /\ self.P.m # EmptyMat

\* the facet-trace degree of freedom of a cell on its local facet lf
FacetTrace(n, lf) == (n - 1) * (lf % 2)

\* block (i, j) of the local matrix of a facet, by the formula of the symmetric
\* interior penalty method: mu are the coefficients of the two cells
PenaltyBlockEntry(n, eta, mu, D, lfd, i, j, r, c) ==
    (IF i = j THEN 1 ELSE -1)
      * ((IF r = FacetTrace(n, lfd[i + 1]) /\ c = FacetTrace(n, lfd[j + 1])
          THEN eta * (Half(mu[0]) + Half(mu[1])) ELSE 0)
         - (IF c = FacetTrace(n, lfd[j + 1]) THEN Half(mu[i]) * D[<<r, lfd[i + 1] % 2>>] ELSE 0)
         - (IF r = FacetTrace(n, lfd[i + 1]) THEN Half(mu[j]) * D[<<c, lfd[j + 1] % 2>>] ELSE 0))

FacetDenseIsPenaltyForm(c, s, ix, e, k) ==
    \A i \in 0..1 : \A j \in 0..1 : \A r \in 0..(N1(c) - 1) : \A cc \in 0..(N1(c) - 1) :
        /\ FacetDense(c, s.eta, s.coef, s.Dfdm[1], ix.index_facet.lfd[e],
                      ix.index_coef_facet.index[e], k)[<<i * N1(c) + r, j * N1(c) + cc>>]
             = PenaltyBlockEntry(N1(c), s.eta,
                                 [v \in 0..1 |-> s.coef.Gq[<<ix.index_coef_facet.index[e][v + 1], k,
                                                             ix.index_facet.lfd[e][v + 1] \div 2>>]],
                                 s.Dfdm[1], ix.index_facet.lfd[e], i, j, r, cc)
        /\ FacetDense(c, s.eta, s.coef, s.Dfdm[1], ix.index_facet.lfd[e],
                      ix.index_coef_facet.index[e], k)[<<i * N1(c) + r, j * N1(c) + cc>>]
             = FacetDense(c, s.eta, s.coef, s.Dfdm[1], ix.index_facet.lfd[e],
                          ix.index_coef_facet.index[e], k)[<<j * N1(c) + cc, i * N1(c) + r>>]

\* C17: for every interior facet and component, block (i, j) of the local
\* matrix is sij times (eta times the sum of the two coefficients at the pair
\* of facet-trace degrees of freedom, less the flux terms coefficient times
\* normal-derivative tabulation in the trace column and in the trace row), with
\* sij = +1/2 for i = j and -1/2 otherwise; and the local matrix is symmetric.
FacetMatrixIsSymmetricPenalty ==
    (self.phase = "initialized" /\ cfg.dg) =>
        \A e \in 0..(get_interior_facet_maps(cfg, CellNodeMap(cfg)).nfacets - 1) :
            \A k \in 0..(cfg.bsize - 1) :
                FacetDenseIsPenaltyForm(cfg, self, KronMaps(cfg), e, k)

\* a facet between two cells with different coefficients and a penalty set by
\* the application
FacetWithUnequalCoefficients ==
    /\ self.phase = "initialized" /\ cfg.dg /\ self.P.assembled
    /\ cfg.eta # -1 /\ self.eta = cfg.eta /\ lin # 0 /\ self.Plin = lin
    /\ self.coef.Gq[<<0, 0, 0>>] # self.coef.Gq[<<1, 0, 0>>]

\* the penalty coefficient as the application asked for it
PenaltyAsked(c) == IF c.eta # -1 THEN c.eta ELSE (c.degree + 1) * (c.degree + 1)

\* C18: for an interior-penalty problem the coefficient bound at set-up is the
\* value under "eta" of the application context when the key is present and
\* (degree+1)^2 otherwise; the catalogs are the ones built with that value, and
\* the operator of every assembly is the one that scaling the facet penalty
\* with that value gives.
PenaltyIsOneValue ==
    (self.phase = "initialized" /\ cfg.dg) =>
        /\ self.eta = PenaltyAsked(cfg)
        /\ \A d \in DOMAIN self.Afdm :
              self.Afdm[d] = fdm_setup_ipdg(cfg.degree, PenaltyAsked(cfg)).Afdm
        /\ self.P.m = KronStages(NewMat("aij"), cfg, PenaltyAsked(cfg), self.coef, self.Afdm,
                                 self.Dfdm, self.bcflags,
                                 Iota(glonum_fun(CellNodeMap(cfg)).nel),
                                 Iota(get_interior_facet_maps(cfg, CellNodeMap(cfg)).nfacets)).A.m

\* an update of an interior-penalty operator whose penalty the application set
PenaltyFromApplication ==
    /\ io.op = "update" /\ io.err = "none"
    /\ cfg.dg /\ cfg.eta # -1 /\ cfg.eta # (cfg.degree + 1) * (cfg.degree + 1)
    /\ self.eta = cfg.eta
    /\ get_interior_facet_maps(cfg, CellNodeMap(cfg)).nfacets > 0
(***************************************************************************)
(* The order of the steps of one assembly.                                 *)
(***************************************************************************)
Kinds(steps, kinds) == {i \in DOMAIN steps : steps[i][1] \in kinds}

\* C19 as stated: the identity rows are set after every cell and facet
\* contribution and before the matrix is marked assembled; cells and facets
\* are visited in increasing order.
IdentityRowsComeLast ==
    self.P.assembled =>
        /\ \A i \in Kinds(self.P.steps, {"identity"}) :
              \A j \in Kinds(self.P.steps, {"reaction", "cell", "facet"}) : j < i
        /\ \A i \in Kinds(self.P.steps, {"cell"}) :
              \A j \in Kinds(self.P.steps, {"facet"}) : i < j
        /\ self.P.steps[Len(self.P.steps)] = <<"assemble">>

\* the steps marked kind, numbered as the sequence ids numbers them
StepsOf(kind, ids) == [t \in DOMAIN ids |-> <<kind, ids[t]>>]

RECURSIVE Ascending(_)
Ascending(S) ==
    IF S = {} THEN << >>
    ELSE <<CHOOSE r \in S : \A r2 \in S : r <= r2>>
           \o Ascending(S \ {CHOOSE r \in S : \A r2 \in S : r <= r2})

\* C19: one assembly zeroes the matrix, then adds the identity to the rows of
\* the eliminated degrees of freedom, in increasing row order, then the dense
\* reaction blocks
\* of the cells when the reaction coefficient is a matrix, then the cell
\* contributions, then the interior-facet contributions when a tabulation
\* exists, and then marks the matrix assembled; cells and facets are visited
\* in increasing index order.
IdentityRowsComeFirst ==
    self.P.assembled =>
        self.P.steps =
            << <<"zeroEntries">> >>
              \o StepsOf("identity", Ascending(EliminatedRows(cfg)))
              \o (IF HasBq(cfg) /\ cfg.bsize > 1
                  THEN StepsOf("reaction", Iota(glonum_fun(CellNodeMap(cfg)).nel))
                  ELSE << >>)
              \o StepsOf("cell", Iota(glonum_fun(CellNodeMap(cfg)).nel))
              \o (IF cfg.dg
                  THEN StepsOf("facet",
                               Iota(get_interior_facet_maps(cfg, CellNodeMap(cfg)).nfacets))
                  ELSE << >>)
              \o << <<"assemble">> >>

\* an assembly with eliminated rows, several cells and a dense reaction block
AssembledWithEliminatedRows ==
    /\ self.P.assembled /\ io.op = "update"
    /\ EliminatedRows(cfg) # {}
    /\ Kinds(self.P.steps, {"identity"}) # {}
    /\ Kinds(self.P.steps, {"reaction"}) # {}
    /\ Cardinality(Kinds(self.P.steps, {"cell"})) > 1
(***************************************************************************)
(* The selection of the stiffness variant.                                 *)
(***************************************************************************)
\* the stiffness variant that the catalog of c builds for the endpoint states
VariantBuiltFor(c, eta, bc0, bc1) ==
    IF c.dg
    THEN apply_weak_bcs(fdm_setup(c.degree).A, fdm_setup(c.degree).Dfdm, N1(c), bc0, bc1, eta)
    ELSE apply_strong_bcs(fdm_setup(c.degree).A, N1(c), bc0, bc1)

\* the flags of the two endpoints of direction d, the others 0
EndpointFlags(c, d, bc0, bc1) ==
    [f \in 0..(2 * ndim(c) - 1) |-> IF f = 2 * d THEN bc0 ELSE IF f = 2 * d + 1 THEN bc1 ELSE 0]

\* C20: in the continuous and in the interior-penalty catalog, the stiffness
\* operator that the assembler selects for a cell, a component and a direction
\* d is the variant built for (bc0, bc1) = (flag of local facet 2d, flag of
\* local facet 2d+1), and so for each of the four combinations of flags.
StiffnessSelectedByEndpointFlags ==
    self.phase = "initialized" =>
        /\ \A e \in 0..(glonum_fun(CellNodeMap(cfg)).nel - 1) : \A k \in 0..(cfg.bsize - 1) :
              \A d \in 0..(ndim(cfg) - 1) :
                 SelectedStiffness(self.Afdm, CellFlags(cfg, self.bcflags, e, k), d).v =
                     VariantBuiltFor(cfg, self.eta,
                                     CellFlags(cfg, self.bcflags, e, k)[2 * d],
                                     CellFlags(cfg, self.bcflags, e, k)[2 * d + 1]).v
        /\ \A d \in 0..(ndim(cfg) - 1) : \A bc0 \in {0, 1} : \A bc1 \in {0, 1} :
              SelectedStiffness(self.Afdm, EndpointFlags(cfg, d, bc0, bc1), d).v =
                  VariantBuiltFor(cfg, self.eta, bc0, bc1).v

\* an assembled operator with a cell whose two facets of one direction carry
\* different flags, where the variant of the swapped flags is another matrix
CellWithOneFlaggedEndpoint ==
    /\ self.phase = "initialized" /\ self.P.assembled
    /\ \E e \in 0..(glonum_fun(CellNodeMap(cfg)).nel - 1) : \E k \in 0..(cfg.bsize - 1) :
          \E d \in 0..(ndim(cfg) - 1) :
             /\ CellFlags(cfg, self.bcflags, e, k)[2 * d] = 1
             /\ CellFlags(cfg, self.bcflags, e, k)[2 * d + 1] = 0
             /\ SelectedStiffness(self.Afdm, CellFlags(cfg, self.bcflags, e, k), d).v #
                    VariantBuiltFor(cfg, self.eta, 0, 1).v
(***************************************************************************)
(* The reaction term.                                                      *)
(***************************************************************************)
\* the operator of the state's coefficients without any reaction term: the
\* identity rows, the cell loop told that there is no reaction coefficient,
\* and the facet terms
StiffnessOnly ==
    FacetStage(CellLoop(IdentityStep(BeginAssembly(NewMat("aij")), cfg), cfg, KronMaps(cfg),
                        self.coef, FALSE, self.Afdm, self.bcflags,
                        Iota(glonum_fun(CellNodeMap(cfg)).nel)),
               cfg, KronMaps(cfg), self.eta, self.coef, self.Afdm, self.Dfdm,
               Iota(get_interior_facet_maps(cfg, CellNodeMap(cfg)).nfacets)).A.m

\* the reaction term of every cell, once: the Kronecker product of the mass
\* matrices and the cell's reaction block, scattered to the rows of the cell
ReactionOnly ==
    IF HasBq(cfg)
    THEN DenseReactionLoop(NewMat("aij"), cfg, KronMaps(cfg), self.coef, self.Afdm,
                           Iota(glonum_fun(CellNodeMap(cfg)).nel)).m
    ELSE EmptyMat

SumsTo(P, S, R) ==
    \A p \in DOMAIN P \cup DOMAIN S \cup DOMAIN R :
        Get(P, p[1], p[2]) = Get(S, p[1], p[2]) + Get(R, p[1], p[2])

\* C21: the assembled operator is the operator without reaction term plus the
\* reaction term of every cell taken once; the dense pass runs exactly when
\* the reaction coefficient is a rank-2 block, and without a reaction
\* coefficient the operator is the one without reaction term.
ReactionAddedOnce ==
    self.phase = "initialized" =>
        /\ SumsTo(self.P.m, StiffnessOnly, ReactionOnly)
        /\ (Kinds(self.P.steps, {"reaction"}) # {}) <=> (HasBq(cfg) /\ cfg.bsize > 1)
        /\ ~HasBq(cfg) => SumsTo(self.P.m, StiffnessOnly, EmptyMat)

\* an updated operator whose reaction blocks the dense pass added
DenseReactionAssembled ==
    /\ self.phase = "initialized" /\ io.op = "update" /\ io.err = "none"
    /\ HasBq(cfg) /\ cfg.bsize > 1
    /\ Kinds(self.P.steps, {"reaction"}) # {}
    /\ \E p \in DOMAIN ReactionOnly : ReactionOnly[p] # 0

(***************************************************************************)
(* The coefficients an assembly reads.                                     *)
(***************************************************************************)
\* the operator that the stages give from the coefficients coef
OperatorFrom(coef) ==
    KronStages(NewMat("aij"), cfg, self.eta, coef, self.Afdm, self.Dfdm, self.bcflags,
               Iota(glonum_fun(CellNodeMap(cfg)).nel),
               Iota(get_interior_facet_maps(cfg, CellNodeMap(cfg)).nfacets)).A.m

\* C22: a real assembly zeroes the matrix and runs every assembly callable, so
\* that the coefficients it reads hold the values of the linearization point
\* and the operator is the one those values give, not the one of the
\* placeholder 1; the preallocation pass did its scatters without zeroing
\* the matrix and without running an assembly callable.
RealAssemblyReadsAssembledCoefficients ==
    self.phase = "initialized" =>
        /\ self.P.steps[1] = <<"zeroEntries">>
        /\ self.ran = self.callables
        /\ {self.ran[i] : i \in DOMAIN self.ran} = {"Gq"} \cup (IF HasBq(cfg) THEN {"Bq"} ELSE {})
        /\ self.coef.Gq = GqAt(cfg, self.Plin)
        /\ HasBq(cfg) => self.coef.Bq = BqAt(cfg, self.Plin)
        /\ self.P.m = OperatorFrom([Gq |-> GqAt(cfg, self.Plin), Bq |-> BqAt(cfg, self.Plin)])
        /\ self.pre.ran = << >>
        /\ Kinds(self.pre.steps, {"zeroEntries"}) = {}
        /\ Kinds(self.pre.steps, {"cell"}) # {}

\* an updated operator with a reaction term that differs from the operator
\* of the placeholder coefficients
UpdatedAwayFromPlaceholder ==
    /\ self.phase = "initialized" /\ io.op = "update" /\ io.err = "none"
    /\ HasBq(cfg)
    /\ self.P.m # OperatorFrom(PlaceholderCoef(self.coef))
(***************************************************************************)
(* The linear cell index of an extruded mesh.                              *)
(***************************************************************************)
\* the cells of the mesh: column b, layer l
OwnedPairs(p) == {q \in (0..(p.nelv - 1)) \X (0..(MaxLayers - 1)) : q[2] < p.nelz[q[1] + 1]}

\* the row of cell_to_facets of the cell of layer l of column b
FlagRowOf(p, b, l) ==
    [f \in 0..(BaseFacets(p) + 1) |->
       IF f < BaseFacets(p) THEN IndexBaseCellToFacets(p)[b][f]
       ELSE IF f = BaseFacets(p) THEN (IF l = 0 THEN <<0, -2>> ELSE <<1, -1>>)
       ELSE (IF l = p.nelz[b + 1] - 1 THEN <<0, -4>> ELSE <<1, -1>>)]

\* the three lookups of index e give the cell of layer l of column b
LooksUp(p, r, b, l) ==
    /\ r.je = <<CellsBefore(p, b) + l>>
    /\ r.ie = <<2 * (CellsBefore(p, b) + l), 2 * (CellsBefore(p, b) + l) + 1>>
    /\ r.bce = FlagRowOf(p, b, l)

\* C23: on an extruded mesh with a constant or a variable number of layers,
\* the degrees of freedom, the coefficients and the row of facet flags looked
\* up for the cell index e belong to one cell, and the indices 0..nel-1 name
\* every cell of the mesh exactly once.
CellIndexNamesOneCell ==
    io.op = "cell" =>
        /\ \E q \in OwnedPairs(cfg) : LooksUp(cfg, io.ret, q[1], q[2])
        /\ glonum_fun(IndexCellMap(cfg)).nel = Cardinality(OwnedPairs(cfg))
        /\ DOMAIN ExtrudeCellToFacets(cfg) = 0..(Cardinality(OwnedPairs(cfg)) - 1)
        /\ \A q \in OwnedPairs(cfg) :
              Cardinality({e \in 0..(glonum_fun(IndexCoefMap(cfg)).nel - 1) :
                             glonum_fun(IndexCoefMap(cfg)).index[e]
                                = <<CellsBefore(cfg, q[1]) + q[2]>>}) = 1

\* the lookup of a cell above the bottom of a later column, the columns of
\* the mesh having different numbers of layers
UpperCellOfLaterColumn ==
    /\ io.op = "cell" /\ cfg.variable
    /\ \E b \in 1..cfg.nelv : cfg.nelz[b] # cfg.nelz[1]
    /\ \E q \in OwnedPairs(cfg) : q[1] >= 1 /\ q[2] >= 1 /\ LooksUp(cfg, io.ret, q[1], q[2])

(***************************************************************************)
(* The interior facets of an extruded mesh.                                *)
(***************************************************************************)
\* the topological dimension of the extruded mesh
IndexNdim(p) == p.basedim + 1

\* C24 as stated: with a constant number of layers the nbase*nelz vertical
\* facets come first and the nelv*(nelz-1) horizontal facets after them; a
\* horizontal facet couples the layers l and l+1 of one column, every such
\* pair once; and the normal direction of every facet, its local facet number
\* divided by 2, is a direction of the mesh, the vertical one for a
\* horizontal facet.
FacetDirectionIsADirection ==
    (io.op = "facet" /\ ~cfg.variable) =>
        /\ IndexFacetsOf(cfg, IndexCoefMap(cfg)).nfacets
              = (cfg.nelv - 1) * cfg.nelz[1] + cfg.nelv * (cfg.nelz[1] - 1)
        /\ io.ret.e < (cfg.nelv - 1) * cfg.nelz[1] =>
              \E b \in 0..(cfg.nelv - 2) : \E l \in 0..(cfg.nelz[1] - 1) :
                 io.ret.je = <<CellsBefore(cfg, b) + l, CellsBefore(cfg, b + 1) + l>>
        /\ io.ret.e >= (cfg.nelv - 1) * cfg.nelz[1] =>
              \E b \in 0..(cfg.nelv - 1) : \E l \in 0..(cfg.nelz[1] - 2) :
                 io.ret.je = <<CellsBefore(cfg, b) + l, CellsBefore(cfg, b) + l + 1>>
        /\ \A b \in 0..(cfg.nelv - 1) : \A l \in 0..(cfg.nelz[1] - 2) :
              Cardinality({e \in 0..(IndexFacetsOf(cfg, IndexCoefMap(cfg)).nfacets - 1) :
                             IndexFacetsOf(cfg, IndexCoefMap(cfg)).index[e]
                                = <<CellsBefore(cfg, b) + l, CellsBefore(cfg, b) + l + 1>>}) = 1
        /\ \A i \in 1..2 : io.ret.idir[i] \in 0..(IndexNdim(cfg) - 1)
        /\ io.ret.e >= (cfg.nelv - 1) * cfg.nelz[1] =>
              \A i \in 1..2 : io.ret.idir[i] = IndexNdim(cfg) - 1
====
